---- MODULE Spec2Model ----
(***************************************************************************)
(* A state-machine model of gl-wrapper: the GUI event router (gui/gui.rs,  *)
(* gui/widgets.rs), the binding-state cache of the graphics layer          *)
(* (gl/context.rs, gl/program.rs, gl/framebuffer.rs, gl/surface.rs,        *)
(* gl/texture.rs, gl/mesh.rs), the reference-counted program handle, the   *)
(* deferred 2D drawer (gui/draw_2d.rs), the glyph cache (gui/text.rs) and  *)
(* the main loop (gui/main_loop.rs).  Each subsystem has its own           *)
(* specification over its own variables; the others stay at their initial  *)
(* values.                                                                 *)
(***************************************************************************)
EXTENDS Integers, Sequences, FiniteSets, TLC

VARIABLES
    \* ---- gui/gui.rs: struct Gui and the last GuiEventResult
    active_component,   \* Option<(i32, WidgetId)>
    last_render,        \* Option<RenderedGui>
    component_events,   \* GuiEventResult.component_events
    unhandled_events,   \* GuiEventResult.unhandled_events
    gui_call,           \* the last Gui call: its inputs, the routing log, a panic
    \* ---- gl: GlContextCache, the driver's own binding state, the surfaces
    cache,              \* GlContextCache
    native,             \* the state held by the native graphics API
    surfaces,           \* viewport and native framebuffer of each Surface
    gl_call,            \* the last graphics call and the native calls it issued
    \* ---- gl/program.rs, gl/mesh.rs: the owners of each GlProgramInner
    programs,           \* per program: Rc strong count, live owners, native deletes
    prog_call,          \* the last clone, creation or drop
    \* ---- gui/draw_2d.rs: struct Draw2d
    draw2d,             \* triangle_mesh_builder and triangle_mesh
    d2_log,             \* per queued shape: when it was queued, where submitted
    d2_call,            \* the last Draw2d call and the draw calls it issued
    \* ---- gui/text.rs: struct FontInner
    font,               \* glyphs, kerning, cur_x, cur_y, render_mesh_builder
    font_log,           \* what has been rasterized and drawn into the atlas
    font_call,          \* the last Font call
    \* ---- gui/main_loop.rs: start_main_loop
    platform,           \* the build: "native" or "wasm"
    app,                \* what the App does in handle_event
    event_state,        \* EventState
    prev_cursor_pos,    \* the local prev_cursor_pos of the native loop
    queued_events,      \* the queue the wasm event callback fills
    history,            \* every event translated from the platform so far
    loop_call,          \* the interval up to the last App::render_frame call
    \* ---- the constructors that can fail (gl/context.rs, gl/program.rs,
    \* gl/framebuffer.rs, glfw.rs)
    create_call,        \* the last constructor call: its inputs and how it ended
    \* ---- gui/widgets.rs: struct TextEntry
    text_entry,         \* text, continuous_updates, has_changed, cursor_pos
    te_call,            \* the last TextEntry::update: its events and its result
    \* ---- gl/mesh.rs: MeshBuilder::extend
    mb_call,            \* the last extend: both builders before, the result
    \* ---- gui/widgets.rs: Col / Row layout
    layout_call         \* the last compute_rects on a Col or Row

guiVars == <<active_component, last_render, component_events, unhandled_events, gui_call>>
glVars == <<cache, native, surfaces, gl_call>>
progVars == <<programs, prog_call>>
d2Vars == <<draw2d, d2_log, d2_call>>
fontVars == <<font, font_log, font_call>>
loopVars == <<platform, app, event_state, prev_cursor_pos, queued_events, history, loop_call>>
createVars == <<create_call>>
textEntryVars == <<text_entry, te_call>>
builderVars == <<mb_call>>
layoutVars == <<layout_call>>
moreVars == <<createVars, textEntryVars, builderVars, layoutVars>>
vars == <<guiVars, glVars, progVars, d2Vars, fontVars, loopVars, moreVars>>

\* Each subsystem's actions leave the other subsystems alone.  (Draw2d and
\* the main loop reach into the graphics layer, so they pass it along
\* themselves.)
GuiOnly == UNCHANGED <<glVars, progVars, d2Vars, fontVars, loopVars, moreVars>>
GlOnly == UNCHANGED <<guiVars, progVars, d2Vars, fontVars, loopVars, moreVars>>
ProgOnly == UNCHANGED <<guiVars, glVars, d2Vars, fontVars, loopVars, moreVars>>
Draw2dOnly == UNCHANGED <<guiVars, progVars, fontVars, loopVars, moreVars>>
FontOnly == UNCHANGED <<guiVars, glVars, progVars, d2Vars, loopVars, moreVars>>
LoopOnly == UNCHANGED <<guiVars, progVars, d2Vars, fontVars, moreVars>>
CreateOnly ==
    UNCHANGED <<guiVars, d2Vars, fontVars, loopVars, textEntryVars, builderVars, layoutVars>>
TextEntryOnly ==
    UNCHANGED <<guiVars, glVars, progVars, d2Vars, fontVars, loopVars, createVars, builderVars,
                layoutVars>>
BuilderOnly ==
    UNCHANGED <<guiVars, glVars, progVars, d2Vars, fontVars, loopVars, createVars,
                textEntryVars, layoutVars>>
LayoutOnly ==
    UNCHANGED <<guiVars, glVars, progVars, d2Vars, fontVars, loopVars, createVars,
                textEntryVars, builderVars>>

(***************************************************************************)
(* Option<T>: None is the empty sequence, Some(x) a one-element sequence.  *)
(***************************************************************************)
NoneV == <<>>
Some(x) == <<x>>
IsSome(o) == o # NoneV
Unwrap(o) == o[1]

Max(a, b) == IF a >= b THEN a ELSE b

\* `as i32` of a quotient of small integers computed in f32: truncation
\* toward zero.
TruncDiv(a, b) == IF a >= 0 THEN a \div b ELSE -((-a) \div b)

\* i32 remainder (the sign follows the dividend).
RemI32(a, b) == a - b * TruncDiv(a, b)

(***************************************************************************)
(* Rect<i32> (gl/rect.rs).                                                 *)
(***************************************************************************)
RectNew(start, end) == [start |-> start, end |-> end]
RectSize(r) == <<r.end[1] - r.start[1], r.end[2] - r.start[2]>>
ContainsPoint(r, p) ==
    /\ r.start[1] <= p[1] /\ p[1] < r.end[1]
    /\ r.start[2] <= p[2] /\ p[2] < r.end[2]
VAdd(a, b) == <<a[1] + b[1], a[2] + b[2]>>
VSub(a, b) == <<a[1] - b[1], a[2] - b[2]>>

(***************************************************************************)
(* Widgets (gui/widgets.rs).  A widget is a record: its kind, its children *)
(* with their flex, and for a leaf the size of its text.  WidgetId is the  *)
(* index in Widgets.  Components (Button) keep their id across frames; a   *)
(* frame's tree is named by its root.                                      *)
(***************************************************************************)
Leaf(kind, size) == [kind |-> kind, children |-> <<>>, flex |-> <<>>, size |-> size]
Container(kind, children, flex) ==
    [kind |-> kind, children |-> children, flex |-> flex, size |-> <<0, 0>>]

Widgets ==
    <<Leaf("Button", <<2, 1>>),                  \* 1: component A
      Leaf("Button", <<2, 1>>),                  \* 2: component B
      Leaf("Button", <<2, 1>>),                  \* 3: component C
      Leaf("Label", <<3, 1>>),                   \* 4
      Container("Col", <<1, 2>>, <<0, 0>>),      \* 5
      Container("Row", <<1, 2, 3>>, <<1, 1, 0>>),\* 6
      Container("Col", <<4, 1>>, <<0, 1>>),      \* 7
      Container("NoFill", <<5>>, <<0>>),         \* 8
      Container("Overlap", <<4, 2>>, <<0, 0>>),  \* 9
      Container("Inset", <<9>>, <<0>>),          \* 10
      \* 11..18 are laid out on their own.  Only the ratios of the flex values
      \* matter, so whole numbers stand for any f32 values in these ratios.
      Container("Col", <<4, 1>>, <<0, 0>>),           \* 11
      Container("Col", <<4, 1, 2>>, <<1, 2, 0>>),     \* 12
      Container("Col", <<1, 4, 2>>, <<-1, -1, 4>>),   \* 13
      Container("Col", <<4, 1>>, <<1, 1>>),           \* 14
      Container("Row", <<4, 1>>, <<0, 0>>),           \* 15
      Container("Row", <<4, 1, 2>>, <<1, 2, 0>>),     \* 16
      Container("Row", <<1, 4, 2>>, <<-1, -1, 4>>),   \* 17
      Container("Row", <<4, 1>>, <<1, 1>>)>>          \* 18

WidgetIds == DOMAIN Widgets

\* The trees an application hands to Gui::draw.
Trees == {4, 5, 6, 7, 8, 10}

\* Theme.padding
theme == [padding |-> 1]

\* Surface::size of the surface drawn to.
SurfaceSize == <<24, 8>>

\* Widget::is_component
is_component(w) == Widgets[w].kind = "Button"

\* Widget::children
children(w) == Widgets[w].children

\* The widgets of the tree rooted at w in pre-order.
RECURSIVE PreOrder(_)
RECURSIVE PreOrderAll(_, _)
PreOrderAll(ws, k) ==
    IF k > Len(ws) THEN <<>> ELSE PreOrder(ws[k]) \o PreOrderAll(ws, k + 1)
PreOrder(w) == <<w>> \o PreOrderAll(children(w), 1)

SeqRange(s) == {s[i] : i \in DOMAIN s}

\* The ids of the components of the tree rooted at w.
ComponentsOf(w) == {c \in SeqRange(PreOrder(w)) : is_component(c)}

(***************************************************************************)
(* Widget::min_size of each widget kind: it reads the min sizes of the     *)
(* children from min_sizes.                                                *)
(***************************************************************************)
RECURSIVE ColMinSize(_, _, _, _)
ColMinSize(ch, k, min_sizes, acc) ==
    IF k > Len(ch) THEN acc
    ELSE ColMinSize(ch, k + 1, min_sizes,
                    <<Max(acc[1], min_sizes[ch[k]][1]), acc[2] + min_sizes[ch[k]][2]>>)

RECURSIVE RowMinSize(_, _, _, _)
RowMinSize(ch, k, min_sizes, acc) ==
    IF k > Len(ch) THEN acc
    ELSE RowMinSize(ch, k + 1, min_sizes,
                    <<acc[1] + min_sizes[ch[k]][1], Max(acc[2], min_sizes[ch[k]][2])>>)

RECURSIVE OverlapMinSize(_, _, _, _)
OverlapMinSize(ch, k, min_sizes, acc) ==
    IF k > Len(ch) THEN acc
    ELSE OverlapMinSize(ch, k + 1, min_sizes,
                        <<Max(acc[1], min_sizes[ch[k]][1]), Max(acc[2], min_sizes[ch[k]][2])>>)

min_size(w, min_sizes) ==
    LET wd == Widgets[w] IN
    CASE wd.kind = "Button" -> VAdd(wd.size, <<4, 2>>)
      [] wd.kind = "Label" -> wd.size
      [] wd.kind = "Col" -> ColMinSize(wd.children, 1, min_sizes, <<0, 0>>)
      [] wd.kind = "Row" -> RowMinSize(wd.children, 1, min_sizes, <<0, 0>>)
      [] wd.kind = "Overlap" -> OverlapMinSize(wd.children, 1, min_sizes, <<0, 0>>)
      [] wd.kind = "NoFill" -> min_sizes[wd.children[1]]
      [] wd.kind = "Inset" ->
            VAdd(min_sizes[wd.children[1]], <<theme.padding * 2, theme.padding * 2>>)

\* compute_widget_min_size: the children first, then the widget itself.
RECURSIVE compute_widget_min_size(_, _)
RECURSIVE MinSizeChildren(_, _, _)
MinSizeChildren(ch, k, min_sizes) ==
    IF k > Len(ch) THEN min_sizes
    ELSE MinSizeChildren(ch, k + 1, compute_widget_min_size(ch[k], min_sizes))
compute_widget_min_size(w, min_sizes) ==
    LET below == MinSizeChildren(children(w), 1, min_sizes)
    IN  (w :> min_size(w, below)) @@ below

SumSeq(s) == LET RECURSIVE Go(_) Go(k) == IF k > Len(s) THEN 0 ELSE s[k] + Go(k + 1)
             IN  Go(1)

(***************************************************************************)
(* Widget::compute_rects: records the widget's rect and those of its       *)
(* descendants.  The default (leaves) records rect as given.               *)
(***************************************************************************)
RECURSIVE compute_rects(_, _, _, _)
RECURSIVE ColRects(_, _, _, _, _, _, _, _)
\* A Col that rounds each child's share of the extra space up.
ColRects_rounding_up(ch, flex, k, rect, next_pos, shares, min_sizes, widget_rects) ==
    IF k > Len(ch) THEN widget_rects
    ELSE LET widget_extra_space == -((-(shares[1] * flex[k])) \div shares[2])
             widget_height == min_sizes[ch[k]][2] + widget_extra_space
             widget_rect == RectNew(next_pos, VAdd(next_pos, <<RectSize(rect)[1], widget_height>>))
         IN  ColRects(ch, flex, k + 1, rect, VAdd(next_pos, <<0, widget_height>>), shares,
                      min_sizes, compute_rects(ch[k], widget_rect, min_sizes, widget_rects))

ColRects(ch, flex, k, rect, next_pos, shares, min_sizes, widget_rects) ==
    \* shares = <<extra_space, total_flex>>
    IF k > Len(ch) THEN widget_rects
    ELSE LET widget_extra_space == TruncDiv(shares[1] * flex[k], shares[2])
             widget_height == min_sizes[ch[k]][2] + widget_extra_space
             widget_rect == RectNew(next_pos, VAdd(next_pos, <<RectSize(rect)[1], widget_height>>))
         IN  ColRects(ch, flex, k + 1, rect, VAdd(next_pos, <<0, widget_height>>), shares,
                      min_sizes, compute_rects(ch[k], widget_rect, min_sizes, widget_rects))

RECURSIVE RowRects(_, _, _, _, _, _, _, _)
RowRects(ch, flex, k, rect, next_pos, shares, min_sizes, widget_rects) ==
    IF k > Len(ch) THEN widget_rects
    ELSE LET widget_extra_space == TruncDiv(shares[1] * flex[k], shares[2])
             widget_width == min_sizes[ch[k]][1] + widget_extra_space
             widget_rect == RectNew(next_pos, VAdd(next_pos, <<widget_width, RectSize(rect)[2]>>))
         IN  RowRects(ch, flex, k + 1, rect, VAdd(next_pos, <<widget_width, 0>>), shares,
                      min_sizes, compute_rects(ch[k], widget_rect, min_sizes, widget_rects))

RECURSIVE OverlapRects(_, _, _, _, _)
OverlapRects(ch, k, own_rect, min_sizes, widget_rects) ==
    IF k > Len(ch) THEN widget_rects
    ELSE OverlapRects(ch, k + 1, own_rect, min_sizes,
                      compute_rects(ch[k], own_rect, min_sizes, widget_rects))

compute_rects(w, rect, min_sizes, widget_rects) ==
    LET wd == Widgets[w]
        total_flex == SumSeq(wd.flex)
        ms == min_sizes[w]
        pad == <<theme.padding, theme.padding>>
    IN
    CASE wd.kind \in {"Button", "Label"} -> (w :> rect) @@ widget_rects
      [] wd.kind = "Col" ->
            LET own_rect == IF total_flex = 0
                            THEN RectNew(rect.start, VAdd(rect.start, <<RectSize(rect)[1], ms[2]>>))
                            ELSE RectNew(rect.start, VAdd(rect.start, RectSize(rect)))
            IN  ColRects(wd.children, wd.flex, 1, rect, rect.start,
                         <<RectSize(rect)[2] - ms[2], IF total_flex = 0 THEN 1 ELSE total_flex>>,
                         min_sizes, (w :> own_rect) @@ widget_rects)
      [] wd.kind = "Row" ->
            LET own_rect == IF total_flex = 0
                            THEN RectNew(rect.start, VAdd(rect.start, <<ms[1], RectSize(rect)[2]>>))
                            ELSE RectNew(rect.start, VAdd(rect.start, RectSize(rect)))
            IN  RowRects(wd.children, wd.flex, 1, rect, rect.start,
                         <<RectSize(rect)[1] - ms[1], IF total_flex = 0 THEN 1 ELSE total_flex>>,
                         min_sizes, (w :> own_rect) @@ widget_rects)
      [] wd.kind = "Overlap" ->
            OverlapRects(wd.children, 1, rect, min_sizes, (w :> rect) @@ widget_rects)
      [] wd.kind = "NoFill" ->
            compute_rects(wd.children[1], RectNew(rect.start, VAdd(rect.start, ms)), min_sizes,
                          (w :> RectNew(rect.start, VAdd(rect.start, ms))) @@ widget_rects)
      [] wd.kind = "Inset" ->
            compute_rects(wd.children[1], RectNew(VAdd(rect.start, pad), VSub(rect.end, pad)),
                          min_sizes,
                          (w :> RectNew(rect.start, VAdd(rect.end, <<theme.padding * 2, theme.padding * 2>>)))
                              @@ widget_rects)

\* An empty FxHashMap.
EmptyMap == [x \in {} |-> 0]

(***************************************************************************)
(* The order of the layout calls of one Gui::draw.  A step is a call of    *)
(* Widget::min_size or of Widget::compute_rects on one widget, with the    *)
(* ids that min_sizes holds when the call is made.                         *)
(***************************************************************************)
Step(op, w, recorded) == [op |-> op, widget |-> w, min_sizes |-> recorded]

\* The keys min_sizes holds after the min_size calls in steps: each call is
\* followed by min_sizes.insert(widget.id(), min_size).
Recorded(steps) == {steps[i].widget : i \in {j \in DOMAIN steps : steps[j].op = "min_size"}}

RECURSIVE min_size_calls(_, _)
RECURSIVE MinSizeCallsOfChildren(_, _, _)
MinSizeCallsOfChildren(ch, k, steps) ==
    IF k > Len(ch) THEN steps
    ELSE MinSizeCallsOfChildren(ch, k + 1, min_size_calls(ch[k], steps))

\* A traversal that asks a widget for its min size before its children.
min_size_calls_parent_first(w, steps) ==
    MinSizeCallsOfChildren(children(w), 1, Append(steps, Step("min_size", w, Recorded(steps))))

\* compute_widget_min_size: the calls it makes, after those in steps.
min_size_calls(w, steps) ==
    LET below == MinSizeCallsOfChildren(children(w), 1, steps)
    IN  Append(below, Step("min_size", w, Recorded(below)))

\* Widget::compute_rects of every widget kind inserts its own rect and then
\* calls compute_rects of its children in order.
RECURSIVE compute_rects_calls(_, _)
RECURSIVE RectCallsOfChildren(_, _, _)
RectCallsOfChildren(ch, k, steps) ==
    IF k > Len(ch) THEN steps
    ELSE RectCallsOfChildren(ch, k + 1, compute_rects_calls(ch[k], steps))
compute_rects_calls(w, steps) ==
    RectCallsOfChildren(children(w), 1, Append(steps, Step("compute_rects", w, Recorded(steps))))

\* Gui::draw: compute_widget_min_size on the root, then compute_rects.
draw_steps(widget) == compute_rects_calls(widget, min_size_calls(widget, <<>>))

\* The RenderedGui that Gui::draw stores for the tree rooted at widget.
Render(widget) ==
    LET min_sizes == compute_widget_min_size(widget, EmptyMap)
        rect == RectNew(<<0, 0>>, SurfaceSize)
    IN  [widget |-> widget, widget_rects |-> compute_rects(widget, rect, min_sizes, EmptyMap)]

\* GuiResult::rendered_size of the Gui::draw that stored render.
rendered_size(render) == RectSize(render.widget_rects[render.widget])

(***************************************************************************)
(* Events (gui/event.rs).  One record shape for every variant; the fields  *)
(* a variant does not have hold a default.                                 *)
(***************************************************************************)
Ev(type, code, shift, button, pos) ==
    [type |-> type, code |-> code, shift |-> shift, button |-> button, pos |-> pos,
     movement |-> <<0, 0>>]
KeyDown(code, shift) == Ev("KeyDown", code, shift, "", <<0, 0>>)
KeyUp(code) == Ev("KeyUp", code, FALSE, "", <<0, 0>>)
CharEntered(c) == Ev("CharEntered", c, FALSE, "", <<0, 0>>)
MouseDown(button, pos) == Ev("MouseDown", "", FALSE, button, pos)
MouseUp(button, pos) == Ev("MouseUp", "", FALSE, button, pos)
MouseMove(pos) == Ev("MouseMove", "", FALSE, "", pos)
Plain(type) == Ev(type, "", FALSE, "", <<0, 0>>)
MouseMoved(pos, movement) == [MouseMove(pos) EXCEPT !.movement = movement]
WindowResized(size) == [Plain("WindowResized") EXCEPT !.pos = size]

KeyboardTypes == {"KeyDown", "KeyUp", "CharEntered"}

\* The events an application passes to Gui::handle_events.
GuiEvents ==
    {KeyDown("Tab", FALSE), KeyDown("Tab", TRUE), KeyDown("KeyA", FALSE), KeyUp("KeyA"),
     CharEntered("a"), MouseDown("Left", <<1, 1>>), MouseDown("Left", <<10, 4>>),
     MouseDown("Right", <<1, 1>>), MouseUp("Left", <<1, 1>>), MouseMove(<<20, 7>>),
     Plain("MouseEnter"),
     Plain("FocusGained")}

\* The longest slice of events passed to one Gui::handle_events call.
MaxEvents == 2

RECURSIVE SeqsUpTo(_, _)
SeqsUpTo(S, n) ==
    IF n = 0 THEN {<<>>}
    ELSE LET shorter == SeqsUpTo(S, n - 1)
         IN  shorter \cup {Append(q, x) : q \in {r \in shorter : Len(r) = n - 1}, x \in S}

\* The slices of events passed to Gui::handle_events.
EventBatches == SeqsUpTo(GuiEvents, MaxEvents)

Reverse(s) == [i \in 1..Len(s) |-> s[Len(s) + 1 - i]]

SelectSeq2(s, Test(_)) == SelectSeq(s, Test)

\* The tab orders an application may pass for the tree rooted at widget:
\* the IDs of its components, in tree order or reversed.
TabOrders(widget) ==
    LET comps == SelectSeq2(PreOrder(widget), is_component)
    IN  {comps, Reverse(comps)}

(***************************************************************************)
(* widget_handle_event (gui/gui.rs).  The result is the returned bool and  *)
(* the two values it updates in place.                                     *)
(***************************************************************************)
\* The event a component with the given rect receives for event, if any
\* (event2 of widget_handle_event).
ComponentEvent(rect, is_active, event) ==
    CASE event.type \in KeyboardTypes -> IF is_active THEN Some(event) ELSE NoneV
      [] event.type \in {"MouseDown", "MouseUp", "MouseMove"} ->
            IF ContainsPoint(rect, event.pos)
            THEN Some([event EXCEPT !.pos = VSub(event.pos, rect.start)])
            ELSE NoneV
      [] event.type \in {"MouseEnter", "MouseLeave", "PointerLocked", "PointerUnlocked"} -> NoneV
      [] event.type \in {"FocusGained", "FocusLost", "WindowResized", "Scroll"} -> Some(event)

\* The left click inside the component's rect that focuses it.
FocusesComponent(rect, event) ==
    event.type = "MouseDown" /\ ContainsPoint(rect, event.pos) /\ event.button = "Left"

PushEvent(events_out, widget, event2) ==
    [events_out EXCEPT ![widget] = Append(@, event2)]

RECURSIVE widget_handle_event(_, _, _, _, _)
RECURSIVE HandleInChildren(_, _, _, _, _, _)
\* A loop over the children that goes on after a child returned true.
HandleInChildren_visits_all(ch, k, event, widget_rects, events_out, active_component_id) ==
    IF k > Len(ch)
    THEN [handled |-> FALSE, events_out |-> events_out,
          active_component_id |-> active_component_id]
    ELSE LET r == widget_handle_event(ch[k], event, widget_rects, events_out,
                                      active_component_id)
             rest == HandleInChildren(ch, k + 1, event, widget_rects, r.events_out,
                                      r.active_component_id)
         IN  [rest EXCEPT !.handled = r.handled \/ rest.handled]

HandleInChildren(ch, k, event, widget_rects, events_out, active_component_id) ==
    IF k > Len(ch)
    THEN [handled |-> FALSE, events_out |-> events_out,
          active_component_id |-> active_component_id]
    ELSE LET r == widget_handle_event(ch[k], event, widget_rects, events_out,
                                      active_component_id)
         IN  IF r.handled THEN r
             ELSE HandleInChildren(ch, k + 1, event, widget_rects, r.events_out,
                                   r.active_component_id)
widget_handle_event(widget, event, widget_rects, events_out, active_component_id) ==
    LET rect == widget_rects[widget]
        is_active == active_component_id = Some(widget)
        event2 == ComponentEvent(rect, is_active, event)
        active2 == IF is_component(widget) /\ FocusesComponent(rect, event)
                   THEN Some(widget) ELSE active_component_id
    IN  IF is_component(widget) /\ IsSome(event2)
        THEN [handled |-> TRUE, events_out |-> PushEvent(events_out, widget, Unwrap(event2)),
              active_component_id |-> active2]
        ELSE HandleInChildren(children(widget), 1, event, widget_rects, events_out, active2)


(***************************************************************************)
(* Gui (gui/gui.rs).                                                       *)
(***************************************************************************)
AllComponents == {w \in WidgetIds : is_component(w)}

\* An FxHashMap<WidgetId, Vec<Event>> with no entry: a component with no
\* entry has the empty list.
NoEvents == [c \in AllComponents |-> <<>>]

\* A position counted from one.
Position_one_based(ordered_components, id) ==
    LET hits == {i \in DOMAIN ordered_components : ordered_components[i] = id}
    IN  IF hits = {} THEN NoneV ELSE Some(CHOOSE i \in hits : \A j \in hits : i <= j)

\* ordered_components.iter().position(|x| *x == id), zero-based.
Position(ordered_components, id) ==
    LET hits == {i \in DOMAIN ordered_components : ordered_components[i] = id}
    IN  IF hits = {} THEN NoneV
        ELSE Some((CHOOSE i \in hits : \A j \in hits : i <= j) - 1)

IdOf(active) == IF IsSome(active) THEN Some(Unwrap(active)[2]) ELSE NoneV

IsTab(event, shift) == event.type = "KeyDown" /\ event.code = "Tab" /\ event.shift = shift

\* A Tab branch that ignores the shift key.
TabIndex_forward_only(index, n, shift) ==
    IF n = 0 THEN NoneV ELSE Some(RemI32(index + 1, n))

\* The index the Tab key moves the focus to; NoneV when the arithmetic
\* panics (remainder by zero).
TabIndex(index, n, shift) ==
    IF n = 0 THEN NoneV
    ELSE IF shift THEN Some(RemI32(index - 1 + n, n)) ELSE Some(RemI32(index + 1, n))

\* The Tab branch at the end of the loop body: st2 holds the locals and
\* self.active_component after the focus update.
TabBranch(st2, event, ordered_components) ==
    LET n == Len(ordered_components)
        tab == IsSome(st2.active_component) /\ (IsTab(event, FALSE) \/ IsTab(event, TRUE))
        index == IF tab THEN TabIndex(Unwrap(st2.active_component)[1], n, event.shift)
                 ELSE NoneV
    IN  IF tab
        THEN IF ~IsSome(index) \/ Unwrap(index) < 0 \/ Unwrap(index) >= n
             THEN [st2 EXCEPT !.panicked = TRUE]
             ELSE [st2 EXCEPT !.active_component =
                                  Some(<<Unwrap(index), ordered_components[Unwrap(index) + 1]>>)]
        ELSE [st2 EXCEPT !.unhandled_events = Append(@, event)]

\* The loop body after widget_handle_event returned r: the focus update
\* when the local active_component_id changed, then the Tab branch.  routed
\* logs, for each event, the bool widget_handle_event returned, the
\* component the event was appended to (0: none) and the focus state when
\* it was routed.
AfterRouting(st, event, ordered_components, r) ==
    LET old_active_component_id == st.active_component_id
        receiver == {c \in AllComponents : r.events_out[c] # st.events_out[c]}
        entry == [event |-> event, handled |-> r.handled,
                  to |-> IF receiver = {} THEN 0 ELSE CHOOSE c \in receiver : TRUE,
                  gui_active |-> IdOf(st.active_component),
                  active_before |-> st.active_component,
                  local_active |-> old_active_component_id]
        changed == r.active_component_id # old_active_component_id
        pos == IF changed THEN Position(ordered_components, Unwrap(r.active_component_id))
               ELSE NoneV
        st1 == [st EXCEPT !.events_out = r.events_out,
                          !.active_component_id = r.active_component_id,
                          !.routed = Append(@, entry)]
    IN  IF changed /\ ~IsSome(pos) THEN [st1 EXCEPT !.panicked = TRUE]
        ELSE TabBranch(IF changed
                       THEN [st1 EXCEPT !.active_component =
                                            Some(<<Unwrap(pos), Unwrap(r.active_component_id)>>)]
                       ELSE st1,
                       event, ordered_components)

\* What the body of the loop of Gui::handle_events does for one event.  st
\* holds the call's locals and self.active_component.
HandleOneEvent(st, event, ordered_components, render) ==
    AfterRouting(st, event, ordered_components,
                 widget_handle_event(render.widget, event, render.widget_rects, st.events_out,
                                     st.active_component_id))

RECURSIVE HandleLoop(_, _, _, _, _)
HandleLoop(st, events, k, ordered_components, render) ==
    IF k > Len(events) \/ st.panicked THEN st
    ELSE HandleLoop(HandleOneEvent(st, events[k], ordered_components, render), events, k + 1,
                    ordered_components, render)

\* Gui::handle_events: the locals at return (or at the panic).
handle_events(active, render_opt, events, ordered_components) ==
    LET st0 == [active_component |-> active, active_component_id |-> IdOf(active),
                events_out |-> NoEvents, unhandled_events |-> <<>>, routed |-> <<>>,
                panicked |-> FALSE]
    IN  IF IsSome(render_opt)
        THEN HandleLoop(st0, events, 1, ordered_components, Unwrap(render_opt))
        ELSE [st0 EXCEPT !.unhandled_events = events]

NoCall == [op |-> "new", events |-> <<>>, ordered_components |-> <<>>, routed |-> <<>>,
           returned |-> <<>>, panicked |-> FALSE, steps |-> <<>>]

\* Gui::new
GuiInit ==
    /\ active_component = NoneV
    /\ last_render = NoneV
    /\ component_events = NoEvents
    /\ unhandled_events = <<>>
    /\ gui_call = NoCall

\* Gui::draw(widget): lays the tree out and keeps it as the last render.
GuiDraw ==
    /\ gui_call.op \in {"new", "draw", "drop"}
    /\ \E widget \in Trees :
        /\ last_render' = Some(Render(widget))
        /\ gui_call' = [NoCall EXCEPT !.op = "draw", !.steps = draw_steps(widget)]
        /\ UNCHANGED <<active_component, component_events, unhandled_events>>
        /\ GuiOnly

\* The tab orders that meet the documented precondition of handle_events:
\* the IDs of the components of the tree of the last Gui::draw.
OrdersFor(render_opt) ==
    IF IsSome(render_opt) THEN TabOrders(Unwrap(render_opt).widget) ELSE {<<>>}

\* Gui::handle_events(events, ordered_components).  A panic ends the
\* program: no result is returned and nothing runs afterwards.
GuiHandleEvents ==
    /\ gui_call.op \in {"new", "draw", "drop"}
    /\ \E events \in EventBatches, ordered_components \in OrdersFor(last_render) :
        LET st == handle_events(active_component, last_render, events, ordered_components)
        IN  /\ gui_call' = [op |-> "handle_events", events |-> events,
                            ordered_components |-> ordered_components, routed |-> st.routed,
                            returned |-> <<>>, panicked |-> st.panicked, steps |-> <<>>]
            /\ active_component' = st.active_component
            /\ component_events' = IF st.panicked THEN NoEvents ELSE st.events_out
            /\ unhandled_events' = IF st.panicked THEN <<>> ELSE st.unhandled_events
            /\ UNCHANGED last_render
            /\ GuiOnly

\* GuiEventResult::unhandled_events(): takes the list out of the result.
GuiUnhandledEvents ==
    /\ gui_call.op = "handle_events"
    /\ ~gui_call.panicked
    /\ gui_call' = [gui_call EXCEPT !.op = "unhandled_events", !.returned = unhandled_events]
    /\ unhandled_events' = <<>>
    /\ UNCHANGED <<active_component, last_render, component_events>>
    /\ GuiOnly

\* The GuiEventResult goes out of scope before the application's next call
\* on the Gui.
GuiResultDrop ==
    /\ gui_call.op \in {"handle_events", "unhandled_events"}
    /\ ~gui_call.panicked
    /\ gui_call' = [NoCall EXCEPT !.op = "drop"]
    /\ component_events' = NoEvents
    /\ unhandled_events' = <<>>
    /\ UNCHANGED <<active_component, last_render>>
    /\ GuiOnly

(***************************************************************************)
(* The graphics layer: GlContextCache (gl/context.rs) and the binds that   *)
(* consult it.  native is the binding state the driver itself holds; a     *)
(* bind returns the new cache, the new native state and the native calls   *)
(* it issued.                                                              *)
(***************************************************************************)
\* GlProgram values (ProgramId), Texture2d values (TextureId).
Programs == {1, 2}
Textures == {1, 2}

\* The texture units the model binds to (bound_textures has 32 slots).
Units == {0, 1}

DrawModes == {[mode |-> "Draw2D", depth |-> FALSE], [mode |-> "Draw3D", depth |-> TRUE],
              [mode |-> "Draw3D", depth |-> FALSE]}

\* The FramebufferId of the ScreenSurface; Framebuffers get the next ids.
ScreenId == 1

\* The most Framebuffers created.
MaxFramebuffers == 1

\* Sizes of framebuffer attachments, and sizes the screen is resized to.
AttachmentSizes == {<<4, 4>>}
ScreenSizes == {<<16, 16>>, <<32, 32>>}
InitialScreenSize == <<16, 16>>

Call(fn, arg) == [fn |-> fn, arg |-> arg]

\* GlContext::viewport: glViewport(x, y, width, height)
viewport(n, rect) ==
    LET v == <<rect.start[1], rect.start[2], rect.end[1] - rect.start[1],
               rect.end[2] - rect.start[2]>>
    IN  [native |-> [n EXCEPT !.viewport = v], calls |-> <<Call("viewport", v)>>]

Effect(c, n, calls) == [cache |-> c, native |-> n, calls |-> calls]

\* GlProgram::bind without the comparison against the cache.
program_bind_uncached(c, n, p) ==
    Effect([c EXCEPT !.bound_program = Some(p)], [n EXCEPT !.program = p],
           <<Call("use_program", p)>>)

\* GlProgram::bind
program_bind(c, n, p) ==
    IF c.bound_program # Some(p)
    THEN Effect([c EXCEPT !.bound_program = Some(p)], [n EXCEPT !.program = p],
                <<Call("use_program", p)>>)
    ELSE Effect(c, n, <<>>)

\* Surface::bind, for Framebuffer and for ScreenSurface (s is the surface's
\* record: id, native framebuffer and viewport).
surface_bind(c, n, s) ==
    IF c.bound_framebuffer # Some(s.id)
    THEN LET n1 == [n EXCEPT !.draw_framebuffer = s.framebuffer]
             v == viewport(n1, s.viewport)
         IN  Effect([c EXCEPT !.bound_framebuffer = Some(s.id)], v.native,
                    <<Call("bind_framebuffer", <<"DRAW_FRAMEBUFFER", s.framebuffer>>)>> \o v.calls)
    ELSE Effect(c, n, <<>>)

\* Surface::bind_read
surface_bind_read(c, n, s) ==
    IF c.bound_read_framebuffer # Some(s.id)
    THEN Effect([c EXCEPT !.bound_read_framebuffer = Some(s.id)],
                [n EXCEPT !.read_framebuffer = s.framebuffer],
                <<Call("bind_framebuffer", <<"READ_FRAMEBUFFER", s.framebuffer>>)>>)
    ELSE Effect(c, n, <<>>)

\* Texture2d::bind
texture_bind(c, n, t, texture_unit) ==
    IF c.bound_textures[texture_unit] # Some(<<"TEXTURE_2D", t>>)
    THEN Effect([c EXCEPT !.bound_textures[texture_unit] = Some(<<"TEXTURE_2D", t>>)],
                [n EXCEPT !.active_texture = texture_unit, !.textures[texture_unit] = t],
                <<Call("active_texture", texture_unit), Call("bind_texture", t)>>)
    ELSE Effect(c, n, <<>>)

\* DrawMode::bind
draw_mode_bind(c, n, m) ==
    IF c.draw_mode # Some(m)
    THEN Effect([c EXCEPT !.draw_mode = Some(m)],
                [n EXCEPT !.cull_face = (m.mode = "Draw3D"),
                          !.depth_test = (m.mode = "Draw3D" /\ m.depth)],
                IF m.mode = "Draw2D"
                THEN <<Call("disable", "CULL_FACE"), Call("disable", "DEPTH_TEST")>>
                ELSE <<Call("enable", "CULL_FACE"),
                       Call(IF m.depth THEN "enable" ELSE "disable", "DEPTH_TEST")>>)
    ELSE Effect(c, n, <<>>)

\* GlContextCache::new
NewCache ==
    [draw_mode |-> NoneV, bound_program |-> NoneV, bound_framebuffer |-> NoneV,
     bound_read_framebuffer |-> NoneV, bound_textures |-> [u \in Units |-> NoneV]]

\* The driver's state for a fresh context: the default framebuffer (0) is
\* bound for drawing and reading, the viewport is the window.
NewNative ==
    [draw_framebuffer |-> 0, read_framebuffer |-> 0,
     viewport |-> <<0, 0, InitialScreenSize[1], InitialScreenSize[2]>>, program |-> 0,
     active_texture |-> 0, textures |-> [u \in Units |-> 0], cull_face |-> FALSE,
     depth_test |-> FALSE]

\* ScreenSurface::new
NewScreen ==
    [id |-> ScreenId, framebuffer |-> 0, viewport |-> RectNew(<<0, 0>>, InitialScreenSize),
     size |-> InitialScreenSize]

\* A slot of the cache: its field and, for bound_textures, the texture unit.
NoSlot == <<"", 0>>

GlCall(op, slot, target, before, calls) ==
    [op |-> op, slot |-> slot, target |-> target, before |-> before, calls |-> calls]

\* GlContext::new: the context and its ScreenSurface.
GlInit ==
    /\ cache = NewCache
    /\ native = NewNative
    /\ surfaces = (ScreenId :> NewScreen)
    /\ gl_call = GlCall("new", NoSlot, 0, NoneV, <<>>)

Apply(e, op, slot, target, before) ==
    /\ cache' = e.cache
    /\ native' = e.native
    /\ gl_call' = GlCall(op, slot, target, before, e.calls)

ProgramBind ==
    \E p \in Programs :
        /\ Apply(program_bind(cache, native, p), "bind", <<"program", 0>>, p, cache.bound_program)
        /\ UNCHANGED surfaces
        /\ GlOnly

SurfaceBind ==
    \E s \in DOMAIN surfaces :
        /\ Apply(surface_bind(cache, native, surfaces[s]), "bind", <<"framebuffer", 0>>, s,
                 cache.bound_framebuffer)
        /\ UNCHANGED surfaces
        /\ GlOnly

SurfaceBindRead ==
    \E s \in DOMAIN surfaces :
        /\ Apply(surface_bind_read(cache, native, surfaces[s]), "bind", <<"read_framebuffer", 0>>, s,
                 cache.bound_read_framebuffer)
        /\ UNCHANGED surfaces
        /\ GlOnly

TextureBind ==
    \E t \in Textures, u \in Units :
        /\ Apply(texture_bind(cache, native, t, u), "bind", <<"texture", u>>,
                 <<"TEXTURE_2D", t>>, cache.bound_textures[u])
        /\ UNCHANGED surfaces
        /\ GlOnly

DrawModeBind ==
    \E m \in DrawModes :
        /\ Apply(draw_mode_bind(cache, native, m), "bind", <<"draw_mode", 0>>, m, cache.draw_mode)
        /\ UNCHANGED surfaces
        /\ GlOnly

\* Framebuffer::new: binds the new framebuffer to FRAMEBUFFER (the draw and
\* the read target) to attach to it; the cache is not told.
framebuffer_new(n, framebuffer) ==
    [native |-> [n EXCEPT !.draw_framebuffer = framebuffer, !.read_framebuffer = framebuffer],
     calls |-> <<Call("bind_framebuffer", <<"FRAMEBUFFER", framebuffer>>),
                 Call("attach_to_framebuffer", framebuffer)>>]

FramebufferNew ==
    \E size \in AttachmentSizes :
        LET id == Cardinality(DOMAIN surfaces) + 1
            e == framebuffer_new(native, id)
        IN  /\ Cardinality(DOMAIN surfaces) <= MaxFramebuffers
            /\ native' = e.native
            /\ surfaces' = surfaces @@
                   (id :> [id |-> id, framebuffer |-> id,
                           viewport |-> RectNew(<<0, 0>>, size), size |-> size])
            /\ gl_call' = GlCall("Framebuffer::new", NoSlot, id, NoneV, e.calls)
            /\ UNCHANGED cache
            /\ GlOnly

\* Framebuffer::blit_to(surface)
blit_to(c, n, from, to) ==
    LET r == surface_bind_read(c, n, from)
        b == surface_bind(r.cache, r.native, to)
    IN  Effect(b.cache, b.native, r.calls \o b.calls \o <<Call("blit_framebuffer", from.size)>>)

BlitTo ==
    \E f \in DOMAIN surfaces \ {ScreenId}, s \in DOMAIN surfaces :
        /\ Apply(blit_to(cache, native, surfaces[f], surfaces[s]), "blit_to", <<"framebuffer", 0>>, s,
                 cache.bound_framebuffer)
        /\ UNCHANGED surfaces
        /\ GlOnly

\* ScreenSurface::set_size
set_size(c, n, screen, new_size) ==
    LET resized == [screen EXCEPT !.viewport = RectNew(<<0, 0>>, new_size), !.size = new_size]
        v == IF c.bound_framebuffer = Some(screen.id) THEN viewport(n, resized.viewport)
             ELSE [native |-> n, calls |-> <<>>]
    IN  [screen |-> resized, native |-> v.native, calls |-> v.calls]

ScreenSetSize ==
    \E new_size \in ScreenSizes :
        LET e == set_size(cache, native, surfaces[ScreenId], new_size)
        IN  /\ surfaces' = [surfaces EXCEPT ![ScreenId] = e.screen]
            /\ native' = e.native
            /\ gl_call' = GlCall("set_size", NoSlot, ScreenId, NoneV, e.calls)
            /\ UNCHANGED cache
            /\ GlOnly

(***************************************************************************)
(* GlProgram (gl/program.rs) and the Mesh that holds a clone of it         *)
(* (gl/mesh.rs).  A program's record counts the Rc's strong references,    *)
(* the live GlProgram values and Meshes that hold one, and the native      *)
(* delete calls made for it.                                               *)
(***************************************************************************)
\* The most programs created, and the most owners one program has at once.
MaxPrograms == 2
MaxOwners == 3

ProgramIds == 1..MaxPrograms

NoProgram ==
    [created |-> FALSE, strong |-> 0, handles |-> 0, meshes |-> 0, delete_program |-> 0,
     delete_shader |-> 0]

\* GlProgram::new: Rc::new(GlProgramInner { .. }) held by one GlProgram.
gl_program_new ==
    [created |-> TRUE, strong |-> 1, handles |-> 1, meshes |-> 0, delete_program |-> 0,
     delete_shader |-> 0]

\* Drop for GlProgramInner: delete_program and delete_shader for each shader.
gl_program_inner_drop(r) ==
    [r EXCEPT !.delete_program = @ + 1, !.delete_shader = @ + 2]

\* Rc::clone and the drop of an Rc: the inner value is dropped with the last
\* strong reference.
rc_clone(r) == [r EXCEPT !.strong = @ + 1]
rc_drop(r) ==
    LET r1 == [r EXCEPT !.strong = @ - 1]
    IN  IF r1.strong = 0 THEN gl_program_inner_drop(r1) ELSE r1

\* Clone for GlProgram, and the drop of a GlProgram value.
gl_program_clone(r) == [rc_clone(r) EXCEPT !.handles = @ + 1]
gl_program_drop(r) == [rc_drop(r) EXCEPT !.handles = @ - 1]

\* A Mesh::new that keeps no clone of the program.
mesh_new_unowned(r) == [r EXCEPT !.meshes = @ + 1]

\* Mesh::new: the Mesh's program field is program.clone().
mesh_new(r) == [rc_clone(r) EXCEPT !.meshes = @ + 1]

\* Drop for Mesh (its own buffers), then the drop of its program field.
mesh_drop(r) == [rc_drop(r) EXCEPT !.meshes = @ - 1]

ProgInit ==
    /\ programs = [p \in ProgramIds |-> NoProgram]
    /\ prog_call = [op |-> "none", program |-> 0]

ProgStep(op, p, r) ==
    /\ programs' = [programs EXCEPT ![p] = r]
    /\ prog_call' = [op |-> op, program |-> p]
    /\ ProgOnly

\* GlProgram::new: ProgramId::new() hands out the next id.
GlProgramNew ==
    \E p \in ProgramIds :
        /\ ~programs[p].created
        /\ \A q \in ProgramIds : q < p => programs[q].created
        /\ ProgStep("GlProgram::new", p, gl_program_new)

\* program.clone(), from a GlProgram the application holds.
GlProgramClone ==
    \E p \in ProgramIds :
        /\ programs[p].handles >= 1
        /\ programs[p].handles + programs[p].meshes < MaxOwners
        /\ ProgStep("GlProgram::clone", p, gl_program_clone(programs[p]))

GlProgramDrop ==
    \E p \in ProgramIds :
        /\ programs[p].handles >= 1
        /\ ProgStep("GlProgram::drop", p, gl_program_drop(programs[p]))

\* Mesh::new(context, &program, draw_mode)
MeshNew ==
    \E p \in ProgramIds :
        /\ programs[p].handles >= 1
        /\ programs[p].handles + programs[p].meshes < MaxOwners
        /\ ProgStep("Mesh::new", p, mesh_new(programs[p]))

MeshDrop ==
    \E p \in ProgramIds :
        /\ programs[p].meshes >= 1
        /\ ProgStep("Mesh::drop", p, mesh_drop(programs[p]))

(***************************************************************************)
(* Draw2d (gui/draw_2d.rs) over MeshBuilder and Mesh (gl/mesh.rs).  A      *)
(* builder holds next_index and the indices (vertex_data has one vertex    *)
(* for each index below next_index); shapes[i] names the shape whose call  *)
(* pushed indices[i].                                                      *)
(***************************************************************************)
\* MeshIndex::max_value(), MeshIndex being u16.
MeshIndexMax == 65535

\* The most shapes queued and the most render_queued calls in a run.
MaxShapes == 3
MaxRenders == 3

\* ProgramId of Draw2dPrograms.plain_program.
PlainProgram == 1

\* MeshBuilder::new
NewMeshBuilder == [next_index |-> 0, indices |-> <<>>, shapes |-> <<>>, panicked |-> FALSE]

\* MeshBuilder::vert: the index it returns is next_index before the call.
vert(b) ==
    IF b.panicked \/ ~(b.next_index < MeshIndexMax) THEN [b EXCEPT !.panicked = TRUE]
    ELSE [b EXCEPT !.next_index = @ + 1]

\* MeshBuilder::triangle
triangle(b, i, j, k, shape) ==
    IF b.panicked THEN b
    ELSE [b EXCEPT !.indices = @ \o <<i, j, k>>, !.shapes = @ \o <<shape, shape, shape>>]

\* A MeshBuilder::clear that keeps the data.
mesh_builder_keep(b) == b

\* MeshBuilder::clear
mesh_builder_clear(b) == [b EXCEPT !.next_index = 0, !.indices = <<>>, !.shapes = <<>>]

\* The loop of Draw2d::fill_poly over verts.iter().skip(2).
RECURSIVE FillPolyLoop(_, _, _, _, _)
FillPolyLoop(b, first, prev, remaining, shape) ==
    IF remaining = 0 THEN b
    ELSE LET c == b.next_index
         IN  FillPolyLoop(triangle(vert(b), first, prev, c, shape), first, c, remaining - 1,
                          shape)

\* Draw2d::fill_poly with num_verts vertices.
fill_poly(b, num_verts, shape) ==
    IF ~(num_verts >= 3) THEN [b EXCEPT !.panicked = TRUE]
    ELSE LET first == b.next_index
             b1 == vert(b)
             second == b1.next_index
         IN  FillPolyLoop(vert(b1), first, second, num_verts - 2, shape)

\* The loop of Draw2d::draw_line_strip over the pairs of consecutive verts.
RECURSIVE LineStripLoop(_, _, _)
LineStripLoop(b, segments, shape) ==
    IF segments = 0 THEN b
    ELSE LET vert_a == b.next_index
             b4 == vert(vert(vert(vert(b))))
             t1 == triangle(b4, vert_a, vert_a + 1, vert_a + 2, shape)
         IN  LineStripLoop(triangle(t1, vert_a + 1, vert_a + 2, vert_a + 3, shape),
                           segments - 1, shape)

\* Draw2d::draw_line_strip with num_verts vertices.
draw_line_strip(b, num_verts, shape) ==
    IF ~(num_verts >= 2) THEN [b EXCEPT !.panicked = TRUE]
    ELSE LineStripLoop(b, num_verts - 1, shape)

draw_line(b, shape) == draw_line_strip(b, 2, shape)
fill_rect(b, shape) == fill_poly(b, 4, shape)
outline_rect(b, shape) == draw_line_strip(b, 5, shape)

\* Mesh::new: no data yet.
NewMesh == [num_indices |-> 0, vbo |-> 0, ibo |-> <<>>, ibo_shapes |-> <<>>]

\* Mesh::build_from: the buffers keep their old contents when the builder
\* has no indices.
build_from(mesh, builder) ==
    IF Len(builder.indices) = 0 THEN [mesh EXCEPT !.num_indices = 0]
    ELSE [num_indices |-> Len(builder.indices), vbo |-> builder.next_index,
          ibo |-> builder.indices, ibo_shapes |-> builder.shapes]

\* Mesh::draw: the binds, then draw_elements over the first num_indices
\* indices of the index buffer; nothing for a mesh with no indices.
mesh_draw(mesh, c, n, program, surface, draw_mode) ==
    IF mesh.num_indices = 0 THEN Effect(c, n, <<>>)
    ELSE LET p == program_bind(c, n, program)
             s == surface_bind(p.cache, p.native, surface)
             m == draw_mode_bind(s.cache, s.native, draw_mode)
         IN  Effect(m.cache, m.native,
                    p.calls \o s.calls \o m.calls
                        \o <<Call("draw_elements", mesh.num_indices)>>)

\* The shapes a draw of the mesh submits.
ShapesDrawn(mesh) == {mesh.ibo_shapes[i] : i \in 1..mesh.num_indices}

DrawElements(calls) == SelectSeq2(calls, LAMBDA c : c.fn = "draw_elements")

\* Draw2d::new
Draw2dInit ==
    /\ draw2d = [triangle_mesh_builder |-> NewMeshBuilder, triangle_mesh |-> NewMesh]
    /\ d2_log = [queued_at |-> <<>>, submitted |-> <<>>, renders |-> 0]
    /\ d2_call = [op |-> "new", draw_calls |-> 0, panicked |-> FALSE]

\* A call that queues a shape: builder is the triangle builder after it.
QueueShape(op, builder) ==
    /\ ~d2_call.panicked
    /\ Len(d2_log.queued_at) < MaxShapes
    /\ draw2d' = [draw2d EXCEPT !.triangle_mesh_builder = builder]
    /\ d2_log' = IF builder.panicked THEN d2_log
                 ELSE [d2_log EXCEPT !.queued_at = Append(@, d2_log.renders),
                                     !.submitted = Append(@, <<>>)]
    /\ d2_call' = [op |-> op, draw_calls |-> 0, panicked |-> builder.panicked]
    /\ UNCHANGED glVars
    /\ Draw2dOnly

NextShape == Len(d2_log.queued_at) + 1

Draw2dFillPoly ==
    \E num_verts \in 2..4 :
        QueueShape("fill_poly", fill_poly(draw2d.triangle_mesh_builder, num_verts, NextShape))

Draw2dDrawLineStrip ==
    \E num_verts \in 1..3 :
        QueueShape("draw_line_strip",
                   draw_line_strip(draw2d.triangle_mesh_builder, num_verts, NextShape))

Draw2dDrawLine ==
    QueueShape("draw_line", draw_line(draw2d.triangle_mesh_builder, NextShape))

Draw2dFillRect ==
    QueueShape("fill_rect", fill_rect(draw2d.triangle_mesh_builder, NextShape))

Draw2dOutlineRect ==
    QueueShape("outline_rect", outline_rect(draw2d.triangle_mesh_builder, NextShape))

\* Draw2d::render_queued(surface): build_from, draw, then clear the builder.
Draw2dRenderQueued ==
    \E s \in DOMAIN surfaces :
        LET mesh == build_from(draw2d.triangle_mesh, draw2d.triangle_mesh_builder)
            e == mesh_draw(mesh, cache, native, PlainProgram, surfaces[s],
                           [mode |-> "Draw2D", depth |-> FALSE])
            render == d2_log.renders + 1
            drawn == IF DrawElements(e.calls) = <<>> THEN {} ELSE ShapesDrawn(mesh)
        IN  /\ ~d2_call.panicked
            /\ d2_log.renders < MaxRenders
            /\ draw2d' = [triangle_mesh |-> mesh,
                          triangle_mesh_builder |->
                              mesh_builder_clear(draw2d.triangle_mesh_builder)]
            /\ d2_log' = [d2_log EXCEPT
                              !.renders = render,
                              !.submitted = [i \in DOMAIN @ |->
                                                IF i \in drawn THEN Append(@[i], render)
                                                ELSE @[i]]]
            /\ d2_call' = [op |-> "render_queued", draw_calls |-> Len(DrawElements(e.calls)),
                           panicked |-> FALSE]
            /\ cache' = e.cache
            /\ native' = e.native
            /\ gl_call' = GlCall("Mesh::draw", NoSlot, s, NoneV, e.calls)
            /\ UNCHANGED surfaces
            /\ Draw2dOnly

(***************************************************************************)
(* FontInner (gui/text.rs): the glyph cache over the atlas texture.  The   *)
(* draws of FontInner are recorded by what they cover in the atlas and by  *)
(* the number of indices they submit; the bindings they change belong to   *)
(* the graphics layer above.                                               *)
(***************************************************************************)
\* The size of the atlas framebuffer FontInner::new creates.
AtlasSize == <<1024, 1024>>

\* The characters the application uses, and the most characters queued in
\* render_mesh_builder at once.
Chars == {"a", "b", "c", "d", " "}
MaxQueuedChars == 2

\* The font at the chosen scale: the size of each glyph's bitmap, its
\* bearing and advance, the pair kerning, and advance_y (ascent - descent).
\* The bitmap of "b" reaches beyond the font's ascent and descent lines, as
\* the pixel bounding box of a glyph may, so it is taller than advance_y.
GlyphBitmapSize(c) ==
    CASE c = "a" -> <<600, 500>>
      [] c = "b" -> <<400, 520>>
      [] c = "c" -> <<500, 300>>
      [] c = "d" -> <<300, 400>>
AdvanceWidth(c) == IF c = " " THEN 250 ELSE GlyphBitmapSize(c)[1] + 20
PairKerning(a, b) == IF a = "a" /\ b = "b" THEN 0 - 10 ELSE 0
advance_y == 512

is_whitespace(c) == c = " "

\* FontInner::load_glyph: rasterizes c into a texture of its own.
load_glyph(c) ==
    [display |-> IF is_whitespace(c) THEN NoneV
                 ELSE Some([size |-> GlyphBitmapSize(c), left |-> 10,
                            top |-> 0 - GlyphBitmapSize(c)[2]]),
     advance_x |-> AdvanceWidth(c)]

\* FontInner::new, with what has been rasterized and drawn into the atlas.
NewFont ==
    [font |-> [glyphs |-> EmptyMap, kerning |-> EmptyMap, cur_x |-> 0, cur_y |-> 0,
               render_mesh_builder |-> [next_index |-> 0, num_indices |-> 0],
               render_mesh |-> [num_indices |-> 0], panicked |-> FALSE],
     log |-> [rasterized |-> [c \in Chars |-> 0], atlas |-> <<>>]]

Insert(map, key, value) ==
    [k \in DOMAIN map \cup {key} |-> IF k = key THEN value ELSE map[k]]

\* A cache_glyph that opens a new row without going back to the left edge.
cache_miss_same_column(fs, c) ==
    LET glyph == load_glyph(c)
        log1 == [fs.log EXCEPT !.rasterized[c] = @ + 1]
    IN  IF IsSome(glyph.display)
        THEN LET glyph_texture_size == Unwrap(glyph.display).size
                 line_out_of_space == fs.font.cur_x + glyph_texture_size[1] >= AtlasSize[1]
                 x == fs.font.cur_x
                 y == IF line_out_of_space THEN fs.font.cur_y + advance_y + 1
                      ELSE fs.font.cur_y
                 display == [loc |-> <<x, y>>, size |-> glyph_texture_size,
                             left |-> Unwrap(glyph.display).left,
                             top |-> Unwrap(glyph.display).top]
             IN  IF y >= AtlasSize[2]
                 THEN [font |-> [fs.font EXCEPT !.panicked = TRUE], log |-> log1]
                 ELSE [font |-> [fs.font EXCEPT
                                     !.cur_x = x + glyph_texture_size[1] + 1,
                                     !.cur_y = y,
                                     !.glyphs = Insert(@, c, [display |-> Some(display),
                                                             advance_x |-> glyph.advance_x])],
                       log |-> [log1 EXCEPT !.atlas = Append(@, [char |-> c, loc |-> <<x, y>>,
                                                                 size |-> glyph_texture_size])]]
        ELSE [font |-> [fs.font EXCEPT
                            !.glyphs = Insert(@, c, [display |-> NoneV,
                                                    advance_x |-> glyph.advance_x])],
              log |-> log1]

\* FontInner::cache_glyph for a character that is not in the glyph map.
cache_miss(fs, c) ==
    LET glyph == load_glyph(c)
        log1 == [fs.log EXCEPT !.rasterized[c] = @ + 1]
    IN  IF IsSome(glyph.display)
        THEN LET glyph_texture_size == Unwrap(glyph.display).size
                 line_out_of_space == fs.font.cur_x + glyph_texture_size[1] >= AtlasSize[1]
                 x == IF line_out_of_space THEN 0 ELSE fs.font.cur_x
                 y == IF line_out_of_space THEN fs.font.cur_y + advance_y + 1
                      ELSE fs.font.cur_y
                 display == [loc |-> <<x, y>>, size |-> glyph_texture_size,
                             left |-> Unwrap(glyph.display).left,
                             top |-> Unwrap(glyph.display).top]
             IN  IF y >= AtlasSize[2]
                 THEN [font |-> [fs.font EXCEPT !.panicked = TRUE], log |-> log1]
                 ELSE [font |-> [fs.font EXCEPT
                                     !.cur_x = x + glyph_texture_size[1] + 1,
                                     !.cur_y = y,
                                     !.glyphs = Insert(@, c, [display |-> Some(display),
                                                             advance_x |-> glyph.advance_x])],
                       log |-> [log1 EXCEPT !.atlas = Append(@, [char |-> c, loc |-> <<x, y>>,
                                                                 size |-> glyph_texture_size])]]
        ELSE [font |-> [fs.font EXCEPT
                            !.glyphs = Insert(@, c, [display |-> NoneV,
                                                    advance_x |-> glyph.advance_x])],
              log |-> log1]

\* A cache_glyph that does not look the character up first.
cache_glyph_always(fs, c) ==
    IF fs.font.panicked THEN fs ELSE cache_miss(fs, c)

\* FontInner::cache_glyph.  After a panic nothing more runs.
cache_glyph(fs, c) ==
    IF fs.font.panicked THEN fs
    ELSE IF c \in DOMAIN fs.font.glyphs THEN fs
    ELSE cache_miss(fs, c)

RECURSIVE CacheAll(_, _, _)
CacheAll(fs, str, k) ==
    IF k > Len(str) THEN fs ELSE CacheAll(cache_glyph(fs, str[k]), str, k + 1)

\* FontInner::get_kerning
get_kerning(fs, a, b) ==
    IF fs.font.panicked \/ <<a, b>> \in DOMAIN fs.font.kerning THEN fs
    ELSE [fs EXCEPT !.font.kerning = Insert(@, <<a, b>>, PairKerning(a, b))]

\* FontInner::draw_char: four vertices and two triangles for a glyph that
\* has a bitmap.
draw_char(fs, c) ==
    LET fs1 == cache_glyph(fs, c)
    IN  IF fs1.font.panicked THEN fs1
        ELSE IF IsSome(fs1.font.glyphs[c].display)
        THEN [fs1 EXCEPT !.font.render_mesh_builder =
                             [next_index |-> @.next_index + 4,
                              num_indices |-> @.num_indices + 6]]
        ELSE fs1

\* The second loop of FontInner::draw_string: draw_char for each character
\* and horiz_advance_between for it and its successor.
RECURSIVE DrawChars(_, _, _)
DrawChars(fs, str, k) ==
    IF k > Len(str) THEN fs
    ELSE LET fs1 == draw_char(fs, str[k])
         IN  DrawChars(IF k < Len(str) THEN get_kerning(fs1, str[k], str[k + 1]) ELSE fs1,
                       str, k + 1)

\* FontInner::draw_string
draw_string(fs, str) == DrawChars(CacheAll(fs, str, 1), str, 1)

\* The loop of FontInner::string_width: horiz_advance_between for each pair.
RECURSIVE Advances(_, _, _)
Advances(fs, str, k) ==
    IF k >= Len(str) THEN fs
    ELSE Advances(get_kerning(fs, str[k], str[k + 1]), str, k + 1)

\* FontInner::string_width, and string_size which calls it.
string_width(fs, str) == Advances(CacheAll(fs, str, 1), str, 1)
string_size(fs, str) == string_width(fs, str)

\* FontInner::render_queued_chars: build_from, draw, clear.
render_queued_chars(fs) ==
    [fs EXCEPT !.font.render_mesh = [num_indices |-> fs.font.render_mesh_builder.num_indices],
               !.font.render_mesh_builder = [next_index |-> 0, num_indices |-> 0]]

\* The strings the application draws and measures.
FontStrings ==
    {<<>>, <<"a", "b">>, <<"c">>, <<"d", " ">>, <<"b", "a">>}

FontInit ==
    /\ font = NewFont.font
    /\ font_log = NewFont.log
    /\ font_call = [op |-> "new", str |-> <<>>, cached |-> FALSE]

FontStep(op, str, fs) ==
    /\ ~font.panicked
    /\ font' = fs.font
    /\ font_log' = fs.log
    /\ font_call' = [op |-> op, str |-> str, cached |-> SeqRange(str) \subseteq DOMAIN font.glyphs]
    /\ FontOnly

FontState == [font |-> font, log |-> font_log]

\* The room the queued characters leave in render_mesh_builder.
Room(str) == font.render_mesh_builder.next_index + 4 * Len(str) <= 4 * MaxQueuedChars

FontDrawString ==
    \E str \in FontStrings :
        Room(str) /\ FontStep("draw_string", str, draw_string(FontState, str))

FontDrawChar ==
    \E c \in Chars :
        Room(<<c>>) /\ FontStep("draw_char", <<c>>, draw_char(FontState, c))

FontStringWidth ==
    \E str \in FontStrings : FontStep("string_width", str, string_width(FontState, str))

FontStringSize ==
    \E str \in FontStrings : FontStep("string_size", str, string_size(FontState, str))

FontRenderQueued ==
    FontStep("render_queued", <<>>, render_queued_chars(FontState))

(***************************************************************************)
(* start_main_loop (gui/main_loop.rs) with event_from_glfw (gui/event.rs)  *)
(* for the native build and setup_event_callbacks for the wasm build.  The *)
(* wasm callback's assignments to shift, ctrl and alt have no field in     *)
(* EventState and are left out.                                            *)
(***************************************************************************)
Platforms == {"native", "wasm"}

\* The most events translated in a run, and the most window events one
\* glfw::flush_messages returns.
MaxHistory == 3
MaxBatch == 2

Glfw(type, key, action, pos, on) ==
    [type |-> type, key |-> key, action |-> action, pos |-> pos, on |-> on]

\* The glfw::WindowEvents the window system sends.
GlfwEvents ==
    {Glfw("Key", "KeyA", "Press", <<0, 0>>, FALSE),
     Glfw("Key", "KeyA", "Release", <<0, 0>>, FALSE),
     Glfw("Key", "KeyB", "Press", <<0, 0>>, FALSE),
     Glfw("Key", "Unknown", "Press", <<0, 0>>, FALSE),
     Glfw("MouseButton", "Button1", "Press", <<0, 0>>, FALSE),
     Glfw("MouseButton", "Button1", "Release", <<0, 0>>, FALSE),
     Glfw("MouseButton", "Button2", "Press", <<0, 0>>, FALSE),
     Glfw("CursorPos", "", "", <<5, 5>>, FALSE),
     Glfw("CursorEnter", "", "", <<0, 0>>, FALSE),
     Glfw("Focus", "", "", <<0, 0>>, FALSE),
     Glfw("FramebufferSize", "", "", <<32, 32>>, FALSE)}

GlfwBatches == SeqsUpTo(GlfwEvents, MaxBatch)

\* window.get_cursor_pos()
CursorPos == <<3, 3>>

\* MouseButton::from_glfw
MouseButtonFromGlfw(button) ==
    CASE button = "Button1" -> Some("Left")
      [] button = "Button2" -> Some("Right")
      [] button = "Button3" -> Some("Middle")
      [] OTHER -> NoneV

\* Key::from_glfw: no Key for a key glfw does not know.
KeyFromGlfw(key) == IF key = "Unknown" THEN NoneV ELSE Some(key)

\* event_from_glfw: the event, if any, and the updated prev_cursor_pos.
event_from_glfw(event, prev) ==
    CASE event.type = "MouseButton" ->
            LET button == MouseButtonFromGlfw(event.key)
            IN  [event |-> IF ~IsSome(button) THEN NoneV
                           ELSE IF event.action = "Release"
                           THEN Some(MouseUp(Unwrap(button), CursorPos))
                           ELSE Some(MouseDown(Unwrap(button), CursorPos)),
                 prev_cursor_pos |-> prev]
      [] event.type = "CursorPos" ->
            [event |-> IF IsSome(prev)
                       THEN Some(MouseMoved(event.pos, VSub(event.pos, Unwrap(prev))))
                       ELSE NoneV,
             prev_cursor_pos |-> Some(event.pos)]
      [] event.type = "Key" ->
            LET key == KeyFromGlfw(event.key)
            IN  [event |-> IF ~IsSome(key) THEN NoneV
                           ELSE IF event.action = "Release" THEN Some(KeyUp(Unwrap(key)))
                           ELSE Some(KeyDown(Unwrap(key), FALSE)),
                 prev_cursor_pos |-> prev]
      [] event.type = "CursorEnter" ->
            [event |-> Some(Plain(IF event.on THEN "MouseEnter" ELSE "MouseLeave")),
             prev_cursor_pos |-> prev]
      [] event.type = "FramebufferSize" ->
            [event |-> Some(WindowResized(event.pos)), prev_cursor_pos |-> prev]
      [] event.type = "Focus" ->
            [event |-> Some(Plain(IF event.on THEN "FocusGained" ELSE "FocusLost")),
             prev_cursor_pos |-> prev]
      [] OTHER -> [event |-> NoneV, prev_cursor_pos |-> prev]

NewEventState ==
    [pressed_keys |-> {}, pressed_mouse_buttons |-> {}, cursor_pos |-> NoneV,
     prev_cursor_pos |-> NoneV, pointer_locked |-> FALSE]

\* The match on the event in the native loop, with a FocusLost arm that
\* leaves the mouse buttons.
native_update_keeps_buttons(es, event) ==
    CASE event.type = "KeyDown" -> [es EXCEPT !.pressed_keys = @ \cup {event.code}]
      [] event.type = "KeyUp" -> [es EXCEPT !.pressed_keys = @ \ {event.code}]
      [] event.type = "FocusLost" -> [es EXCEPT !.pressed_keys = {}]
      [] event.type = "MouseDown" -> [es EXCEPT !.pressed_mouse_buttons = @ \cup {event.button}]
      [] event.type = "MouseUp" -> [es EXCEPT !.pressed_mouse_buttons = @ \ {event.button}]
      [] event.type = "MouseLeave" -> [es EXCEPT !.pressed_mouse_buttons = {}]
      [] event.type = "PointerLocked" -> [es EXCEPT !.pointer_locked = TRUE]
      [] event.type = "PointerUnlocked" -> [es EXCEPT !.pointer_locked = FALSE]
      [] event.type = "MouseMove" ->
            [es EXCEPT !.prev_cursor_pos = es.cursor_pos, !.cursor_pos = Some(event.pos)]
      [] OTHER -> es

\* The match on the event in the native loop (a MouseMove gets here only
\* when it is not discarded).
native_update(es, event) ==
    CASE event.type = "KeyDown" -> [es EXCEPT !.pressed_keys = @ \cup {event.code}]
      [] event.type = "KeyUp" -> [es EXCEPT !.pressed_keys = @ \ {event.code}]
      [] event.type = "FocusLost" ->
            [es EXCEPT !.pressed_keys = {}, !.pressed_mouse_buttons = {}]
      [] event.type = "MouseDown" -> [es EXCEPT !.pressed_mouse_buttons = @ \cup {event.button}]
      [] event.type = "MouseUp" -> [es EXCEPT !.pressed_mouse_buttons = @ \ {event.button}]
      [] event.type = "MouseLeave" -> [es EXCEPT !.pressed_mouse_buttons = {}]
      [] event.type = "PointerLocked" -> [es EXCEPT !.pointer_locked = TRUE]
      [] event.type = "PointerUnlocked" -> [es EXCEPT !.pointer_locked = FALSE]
      [] event.type = "MouseMove" ->
            [es EXCEPT !.prev_cursor_pos = es.cursor_pos, !.cursor_pos = Some(event.pos)]
      [] OTHER -> es

\* The match on the event in the callback of setup_event_callbacks.
wasm_update(es, event) ==
    CASE event.type = "KeyDown" -> [es EXCEPT !.pressed_keys = @ \cup {event.code}]
      [] event.type = "KeyUp" -> [es EXCEPT !.pressed_keys = @ \ {event.code}]
      [] event.type = "FocusLost" ->
            [es EXCEPT !.pressed_keys = {}, !.pressed_mouse_buttons = {}]
      [] event.type = "MouseDown" -> [es EXCEPT !.pressed_mouse_buttons = @ \cup {event.button}]
      [] event.type = "MouseUp" -> [es EXCEPT !.pressed_mouse_buttons = @ \ {event.button}]
      [] event.type = "MouseLeave" -> [es EXCEPT !.pressed_mouse_buttons = {}]
      [] event.type = "PointerLocked" -> [es EXCEPT !.pointer_locked = TRUE]
      [] event.type = "PointerUnlocked" -> [es EXCEPT !.pointer_locked = FALSE]
      [] event.type = "MouseMove" ->
            [es EXCEPT !.prev_cursor_pos = es.cursor_pos, !.cursor_pos = Some(event.pos)]
      [] OTHER -> es

\* App::handle_event: an App that follows the documentation of
\* Event::WindowResized resizes its ScreenSurface to the new size.
app_handle_event(st, event) ==
    IF app.resizes /\ event.type = "WindowResized"
    THEN LET e == set_size(cache, st.native, st.screen, event.pos)
         IN  [st EXCEPT !.handled = Append(@, event), !.screen = e.screen,
                        !.native = e.native, !.calls = @ \o e.calls, !.resizes = @ + 1]
    ELSE [st EXCEPT !.handled = Append(@, event)]

\* An events.push that is left out before app.handle_event(event).
native_deliver_unpushed(st, event) == app_handle_event(st, event)

\* events.push(event.clone()); app.handle_event(event);
native_deliver(st, event) ==
    app_handle_event([st EXCEPT !.events = Append(@, event)], event)

\* The body of the loop over glfw::flush_messages for one window event.
NativeEvent(st, glfw_event, window_size) ==
    LET t == event_from_glfw(glfw_event, st.prev_cursor_pos)
        st1 == [st EXCEPT !.prev_cursor_pos = t.prev_cursor_pos]
    IN  IF ~IsSome(t.event) THEN st1
        ELSE LET event == Unwrap(t.event)
                 resizing == window_size # st.screen.size
                 st2 == [st1 EXCEPT !.translated =
                                        Append(@, [event |-> event, resizing |-> resizing])]
             IN  IF event.type = "MouseMove" /\ resizing THEN st2
                 ELSE native_deliver([st2 EXCEPT !.event_state = native_update(@, event)],
                                     event)

RECURSIVE NativeEvents(_, _, _, _)
NativeEvents(st, batch, k, window_size) ==
    IF k > Len(batch) THEN st
    ELSE NativeEvents(NativeEvent(st, batch[k], window_size), batch, k + 1, window_size)

\* One iteration of the native loop up to the call of render_frame.
native_frame(st, batch, window_size) ==
    LET st1 == NativeEvents(st, batch, 1, window_size)
    IN  IF window_size # st1.screen.size
        THEN native_deliver([st1 EXCEPT !.resized = TRUE], WindowResized(window_size))
        ELSE st1

\* The locals of an interval between two render_frame calls.
Interval(es, prev, events) ==
    [event_state |-> es, prev_cursor_pos |-> prev, events |-> events, handled |-> <<>>,
     translated |-> <<>>, resized |-> FALSE, screen |-> surfaces[ScreenId],
     native |-> native, calls |-> <<>>, resizes |-> 0]

LoopCall(op, st, window_size) ==
    [op |-> op, events |-> st.events, handled |-> st.handled, translated |-> st.translated,
     resized |-> st.resized, window_size |-> window_size]

Events(translated) == [i \in DOMAIN translated |-> translated[i].event]

LoopInit ==
    /\ platform \in Platforms
    /\ app \in [resizes : BOOLEAN]
    /\ event_state = NewEventState
    /\ prev_cursor_pos = NoneV
    /\ queued_events = <<>>
    /\ history = <<>>
    /\ loop_call = [op |-> "start", events |-> <<>>, handled |-> <<>>, translated |-> <<>>,
                    resized |-> FALSE, window_size |-> InitialScreenSize]

\* One iteration of the native loop: the window's framebuffer size, the
\* window events glfw has, handle_event for each and render_frame.
NativeFrame ==
    \E batch \in GlfwBatches, window_size \in ScreenSizes :
        LET st == native_frame(Interval(event_state, prev_cursor_pos, <<>>), batch, window_size)
        IN  /\ platform = "native"
            /\ Len(history) + Len(batch) <= MaxHistory
            /\ event_state' = st.event_state
            /\ prev_cursor_pos' = st.prev_cursor_pos
            /\ history' = history \o Events(st.translated)
            /\ loop_call' = LoopCall("render_frame", st, window_size)
            /\ surfaces' = [surfaces EXCEPT ![ScreenId] = st.screen]
            /\ native' = st.native
            /\ gl_call' = IF st.resizes = 0 THEN gl_call
                          ELSE GlCall("set_size", NoSlot, ScreenId, NoneV, st.calls)
            /\ UNCHANGED <<platform, app, queued_events, cache>>
            /\ LoopOnly

\* The events the browser's handlers hand to the callback: the handler, the
\* key or button, and the character a key press enters.
Js(type, code, char) == [type |-> type, code |-> code, char |-> char]

JsEvents ==
    {Js("keydown", "KeyA", Some("a")), Js("keydown", "Tab", NoneV), Js("keyup", "KeyA", NoneV),
     Js("blur", "", NoneV), Js("mousedown", "0", NoneV), Js("mousedown", "7", NoneV),
     Js("mouseup", "0", NoneV), Js("mousemove", "", NoneV), Js("mouseleave", "", NoneV),
     Js("resize", "", NoneV)}

\* MouseButton::from_js
MouseButtonFromJs(js_button) ==
    CASE js_button = "0" -> Some("Left")
      [] js_button = "1" -> Some("Middle")
      [] js_button = "2" -> Some("Right")
      [] js_button = "3" -> Some("Back")
      [] js_button = "4" -> Some("Forward")
      [] OTHER -> NoneV

\* The events a handler of setup_event_callbacks passes to the callback.
EventsFromJs(e) ==
    CASE e.type = "keydown" ->
            <<KeyDown(e.code, FALSE)>>
                \o (IF IsSome(e.char) THEN <<CharEntered(Unwrap(e.char))>> ELSE <<>>)
      [] e.type = "keyup" -> <<KeyUp(e.code)>>
      [] e.type = "focus" -> <<Plain("FocusGained")>>
      [] e.type = "blur" -> <<Plain("FocusLost")>>
      [] e.type = "mousedown" ->
            IF IsSome(MouseButtonFromJs(e.code))
            THEN <<MouseDown(Unwrap(MouseButtonFromJs(e.code)), CursorPos)>> ELSE <<>>
      [] e.type = "mouseup" ->
            IF IsSome(MouseButtonFromJs(e.code))
            THEN <<MouseUp(Unwrap(MouseButtonFromJs(e.code)), CursorPos)>> ELSE <<>>
      [] e.type = "mousemove" -> <<MouseMoved(CursorPos, <<1, 1>>)>>
      [] e.type = "mouseenter" -> <<Plain("MouseEnter")>>
      [] e.type = "mouseleave" -> <<Plain("MouseLeave")>>
      [] e.type = "resize" -> <<WindowResized(<<32, 32>>)>>

\* The callback of setup_event_callbacks, then the callback of
\* start_main_loop: app.handle_event(event.clone()); queued_events.push(event).
wasm_callback(st, event) ==
    LET st1 == [st EXCEPT !.event_state = wasm_update(@, event),
                          !.translated = Append(@, [event |-> event, resizing |-> FALSE])]
        st2 == app_handle_event(st1, event)
    IN  [st2 EXCEPT !.events = Append(@, event)]

RECURSIVE WasmCallbacks(_, _, _)
WasmCallbacks(st, events, k) ==
    IF k > Len(events) THEN st
    ELSE WasmCallbacks(wasm_callback(st, events[k]), events, k + 1)

\* A handler of setup_event_callbacks runs for a browser event.
WasmEvent ==
    \E e \in JsEvents :
        LET since == IF loop_call.op = "render_frame" THEN <<>> ELSE loop_call.handled
            seen == IF loop_call.op = "render_frame" THEN <<>> ELSE loop_call.translated
            es == IF e.type = "mouseleave" THEN [event_state EXCEPT !.cursor_pos = NoneV]
                  ELSE event_state
            st0 == [Interval(es, prev_cursor_pos, queued_events) EXCEPT
                        !.handled = since, !.translated = seen]
            st == WasmCallbacks(st0, EventsFromJs(e), 1)
        IN  /\ platform = "wasm"
            /\ Len(history) + Len(EventsFromJs(e)) <= MaxHistory
            /\ event_state' = st.event_state
            /\ queued_events' = st.events
            /\ history' = history \o EventsFromJs(e)
            /\ loop_call' = [LoopCall("handle_event", st, loop_call.window_size)
                                 EXCEPT !.events = <<>>]
            /\ surfaces' = [surfaces EXCEPT ![ScreenId] = st.screen]
            /\ native' = st.native
            /\ gl_call' = IF st.resizes = 0 THEN gl_call
                          ELSE GlCall("set_size", NoSlot, ScreenId, NoneV, st.calls)
            /\ UNCHANGED <<platform, app, prev_cursor_pos, cache>>
            /\ LoopOnly

\* The request_animation_frame closure: takes the queue and calls
\* render_frame with it.
WasmFrame ==
    /\ platform = "wasm"
    /\ loop_call' = [op |-> "render_frame", events |-> queued_events,
                     handled |-> IF loop_call.op = "render_frame" THEN <<>>
                                 ELSE loop_call.handled,
                     translated |-> IF loop_call.op = "render_frame" THEN <<>>
                                    ELSE loop_call.translated,
                     resized |-> FALSE, window_size |-> loop_call.window_size]
    /\ queued_events' = <<>>
    /\ UNCHANGED <<platform, app, event_state, prev_cursor_pos, history, glVars>>
    /\ LoopOnly

(***************************************************************************)
(* The constructors that can fail: GlProgram::new (gl/program.rs),         *)
(* Framebuffer::new (gl/framebuffer.rs) and GlContext::new (gl/context.rs  *)
(* with create_window_inner of glfw.rs).  What the native API answers is   *)
(* an input of the call.  A call ends by returning a value, by returning   *)
(* Err, or by a panic, which ends the program.                             *)
(***************************************************************************)
Ended(outcome, value, err, calls) ==
    [outcome |-> outcome, value |-> value, err |-> err, calls |-> calls]
Panicked(calls) == Ended("panicked", NoneV, "", calls)
Returned(value, calls) == Ended("returned", Some(value), "", calls)
ReturnedErr(err, calls) == Ended("err", NoneV, err, calls)

\* A GlProgram::load_shader that does not look at the compile status.
load_shader_unchecked(shader_type, compile_ok) ==
    [panicked |-> FALSE,
     calls |-> <<Call("create_shader", shader_type), Call("shader_source", shader_type),
                 Call("compile_shader", shader_type)>>]

\* GlProgram::load_shader
load_shader(shader_type, compile_ok) ==
    [panicked |-> ~compile_ok,
     calls |-> <<Call("create_shader", shader_type), Call("shader_source", shader_type),
                 Call("compile_shader", shader_type)>>]

\* GlProgram::new, the native API answering vert_ok and frag_ok to the two
\* compilations and link_ok to the link.
GlProgram_new(vert_ok, frag_ok, link_ok) ==
    LET vert_shader == load_shader("Vertex", vert_ok)
        frag_shader == load_shader("Fragment", frag_ok)
        link == <<Call("create_program", 0), Call("attach_shader", "Vertex"),
                  Call("attach_shader", "Fragment"), Call("link_program", 0)>>
    IN  IF vert_shader.panicked THEN Panicked(vert_shader.calls)
        ELSE IF frag_shader.panicked THEN Panicked(vert_shader.calls \o frag_shader.calls)
        ELSE IF ~link_ok THEN Panicked(vert_shader.calls \o frag_shader.calls \o link)
        ELSE Returned(gl_program_new, vert_shader.calls \o frag_shader.calls \o link)

\* What check_framebuffer_status answers.
FramebufferStatuses ==
    {"FRAMEBUFFER_COMPLETE", "FRAMEBUFFER_INCOMPLETE_ATTACHMENT",
     "FRAMEBUFFER_INCOMPLETE_MISSING_ATTACHMENT", "FRAMEBUFFER_UNSUPPORTED",
     "FRAMEBUFFER_INCOMPLETE_MULTISAMPLE"}

\* Framebuffer::new with the status check: the new framebuffer is bound and
\* attached to before its status is read.
Framebuffer_new(n, framebuffer, size, status) ==
    LET e == framebuffer_new(n, framebuffer)
        made == [id |-> framebuffer, framebuffer |-> framebuffer,
                 viewport |-> RectNew(<<0, 0>>, size), size |-> size]
    IN  [native |-> e.native,
         end |-> IF status # "FRAMEBUFFER_COMPLETE" THEN Panicked(e.calls)
                 ELSE Returned(made, e.calls)]

\* What the window system answers to the native build: glfw::init, the
\* primary monitor, its video mode, glfw.create_window.
NativeEnvs ==
    [glfw_init : BOOLEAN, monitor : BOOLEAN, video_mode : BOOLEAN, create_window : BOOLEAN]

\* What the browser answers to the wasm32 build: window(), document(),
\* get_element_by_id, whether the element is a canvas, get_context (an
\* exception, null or an object) and whether the object is a WebGL2 context.
WasmEnvs ==
    [window : BOOLEAN, document : BOOLEAN, element : BOOLEAN, is_canvas : BOOLEAN,
     get_context : {"Err", "None", "Some"}, is_webgl2 : BOOLEAN]

\* get_glfw: GLOBAL_GLFW is glfw::init(glfw::FAIL_ON_ERRORS).unwrap().
get_glfw(env) == [panicked |-> ~env.glfw_init, calls |-> <<Call("glfw::init", 0)>>]

\* create_window_inner: each of the three lookups is an expect.
create_window_inner(env) ==
    IF ~env.monitor THEN [panicked |-> TRUE, calls |-> <<Call("with_primary_monitor", 0)>>]
    ELSE IF ~env.video_mode
         THEN [panicked |-> TRUE,
               calls |-> <<Call("with_primary_monitor", 0), Call("get_video_mode", 0)>>]
    ELSE [panicked |-> ~env.create_window,
          calls |-> <<Call("with_primary_monitor", 0), Call("get_video_mode", 0),
                      Call("create_window", 0)>>]

\* What a successful GlContext::new returns: the context with its empty
\* cache and the ScreenSurface.
NewContext == [cache |-> NewCache, screen_surface |-> NewScreen]

\* GlContext::new of the native build.
GlContext_new_native(env) ==
    LET glfw == get_glfw(env)
        window == create_window_inner(env)
    IN  IF glfw.panicked THEN Panicked(glfw.calls)
        ELSE IF window.panicked THEN Panicked(glfw.calls \o window.calls)
        ELSE Returned(NewContext, glfw.calls \o window.calls)

\* GlContext::new of the wasm32 build: every step is an unwrap or an expect
\* but the ok_or(..)? on a null context.
GlContext_new_wasm(env) ==
    IF ~env.window \/ ~env.document THEN Panicked(<<>>)
    ELSE IF ~env.element \/ ~env.is_canvas THEN Panicked(<<Call("get_element_by_id", 0)>>)
    ELSE LET calls == <<Call("get_element_by_id", 0), Call("get_context", "webgl2")>>
         IN  CASE env.get_context = "Err" -> Panicked(calls)
               [] env.get_context = "None" -> ReturnedErr("Unable to create canvas", calls)
               [] OTHER -> IF env.is_webgl2 THEN Returned(NewContext, calls)
                           ELSE Panicked(calls)

CreateCall(op, input, end) ==
    [op |-> op, input |-> input, outcome |-> end.outcome, value |-> end.value,
     err |-> end.err, calls |-> end.calls]

CreateInit ==
    create_call = CreateCall("none", <<>>, Ended("none", NoneV, "", <<>>))

\* GlProgram::new(context, vert_shader_source, frag_shader_source)
CreateProgram ==
    \E vert_ok \in BOOLEAN, frag_ok \in BOOLEAN, link_ok \in BOOLEAN, p \in ProgramIds :
        LET end == GlProgram_new(vert_ok, frag_ok, link_ok)
        IN  /\ create_call.outcome # "panicked"
            /\ ~programs[p].created
            /\ \A q \in ProgramIds : q < p => programs[q].created
            /\ create_call' = CreateCall("GlProgram::new",
                                         [vert_ok |-> vert_ok, frag_ok |-> frag_ok,
                                          link_ok |-> link_ok], end)
            /\ IF end.outcome = "returned"
               THEN /\ programs' = [programs EXCEPT ![p] = Unwrap(end.value)]
                    /\ prog_call' = [op |-> "GlProgram::new", program |-> p]
               ELSE UNCHANGED progVars
            /\ UNCHANGED glVars
            /\ CreateOnly

\* Framebuffer::new(context, attachment)
CreateFramebuffer ==
    \E size \in AttachmentSizes, status \in FramebufferStatuses :
        LET id == Cardinality(DOMAIN surfaces) + 1
            r == Framebuffer_new(native, id, size, status)
        IN  /\ create_call.outcome # "panicked"
            /\ Cardinality(DOMAIN surfaces) <= MaxFramebuffers
            /\ create_call' = CreateCall("Framebuffer::new", [status |-> status], r.end)
            /\ native' = r.native
            /\ surfaces' = IF r.end.outcome = "returned"
                           THEN surfaces @@ (id :> Unwrap(r.end.value)) ELSE surfaces
            /\ gl_call' = GlCall("Framebuffer::new", NoSlot, id, NoneV, r.end.calls)
            /\ UNCHANGED <<cache, progVars>>
            /\ CreateOnly

\* GlContext::new of the build the program was compiled for.  The context it
\* returns is another one than the context the graphics state belongs to.
CreateContext ==
    \E native_env \in NativeEnvs, wasm_env \in WasmEnvs :
        LET env == IF platform = "native" THEN native_env ELSE wasm_env
            end == IF platform = "native" THEN GlContext_new_native(env)
                   ELSE GlContext_new_wasm(env)
        IN  /\ create_call.outcome # "panicked"
            /\ create_call' = CreateCall("GlContext::new", env, end)
            /\ UNCHANGED <<glVars, progVars>>
            /\ CreateOnly

(***************************************************************************)
(* TextEntry (gui/widgets.rs).  A String is a sequence of characters;      *)
(* caret_pos counts characters from zero.                                  *)
(***************************************************************************)
\* max_len of the entry, and the longest batch of events one update gets.
MaxLen == 2
MaxTextEvents == 2

\* placeholder_text of the entry.
PlaceholderText == <<"p">>

\* The events GuiEventResult::update_component hands to TextEntry::update.
TextEvents ==
    {KeyDown("Backspace", FALSE), KeyDown("ArrowLeft", FALSE), KeyDown("ArrowRight", FALSE),
     KeyDown("Enter", FALSE), KeyDown("KeyA", FALSE), CharEntered("a"), CharEntered("b"),
     MouseDown("Left", <<1, 1>>)}
TextBatches == SeqsUpTo(TextEvents, MaxTextEvents)

\* String::remove(idx) and String::insert(idx, c), idx counted from zero.
StringRemove(text, idx) == SubSeq(text, 1, idx) \o SubSeq(text, idx + 2, Len(text))
StringInsert(text, idx, c) == SubSeq(text, 1, idx) \o <<c>> \o SubSeq(text, idx + 1, Len(text))

Min(a, b) == IF a <= b THEN a ELSE b

\* TextEntry::new(start_text, placeholder_text, use_placeholder_text_if_empty,
\* max_len, continuous_updates)
NewTextEntry(start_text, use_placeholder_text_if_empty, continuous_updates) ==
    [text |-> start_text, placeholder_text |-> PlaceholderText, caret_pos |-> 0,
     max_len |-> MaxLen, use_placeholder_text_if_empty |-> use_placeholder_text_if_empty,
     continuous_updates |-> continuous_updates]

\* TextEntry::cur_text
cur_text(te) ==
    IF te.text = <<>> /\ te.use_placeholder_text_if_empty THEN te.placeholder_text
    ELSE te.text

\* TextEntry::take_cur_text: the text it returns and the entry afterwards.
take_cur_text(te) ==
    IF te.text = <<>> /\ te.use_placeholder_text_if_empty
    THEN [text |-> te.placeholder_text, te |-> te]
    ELSE IF te.continuous_updates THEN [text |-> te.text, te |-> te]
    ELSE [text |-> te.text, te |-> [te EXCEPT !.text = <<>>]]

\* The body of the loop of TextEntry::update for one event.  st holds the
\* entry, the local res and whether a String operation panicked.
TextEntryEvent(st, event) ==
    LET te == st.te
    IN  CASE event.type = "KeyDown" /\ event.code = "Backspace" ->
                IF te.caret_pos > 0
                THEN IF te.caret_pos - 1 >= Len(te.text) THEN [st EXCEPT !.panicked = TRUE]
                     ELSE [st EXCEPT !.te.text = StringRemove(te.text, te.caret_pos - 1),
                                     !.te.caret_pos = te.caret_pos - 1]
                ELSE st
          [] event.type = "KeyDown" /\ event.code = "ArrowLeft" ->
                [st EXCEPT !.te.caret_pos = Max(te.caret_pos - 1, 0)]
          [] event.type = "KeyDown" /\ event.code = "ArrowRight" ->
                [st EXCEPT !.te.caret_pos = Min(te.caret_pos + 1, Len(te.text))]
          [] event.type = "KeyDown" /\ event.code = "Enter" ->
                LET taken == take_cur_text(te)
                IN  [st EXCEPT !.res = Some(taken.text),
                               !.te = [taken.te EXCEPT !.caret_pos = 0]]
          [] event.type = "CharEntered" ->
                IF Len(te.text) < te.max_len
                THEN IF te.caret_pos > Len(te.text) THEN [st EXCEPT !.panicked = TRUE]
                     ELSE [st EXCEPT !.te.text = StringInsert(te.text, te.caret_pos, event.code),
                                     !.te.caret_pos = te.caret_pos + 1]
                ELSE st
          [] OTHER -> st

RECURSIVE TextEntryEvents(_, _, _)
TextEntryEvents(st, events, k) ==
    IF k > Len(events) \/ st.panicked THEN st
    ELSE TextEntryEvents(TextEntryEvent(st, events[k]), events, k + 1)

\* TextEntry::update: the entry afterwards and the text of the result.
text_entry_update(te, events) ==
    LET st == TextEntryEvents([te |-> te, res |-> NoneV, panicked |-> FALSE], events, 1)
    IN  IF ~st.panicked /\ st.te.continuous_updates
        THEN [st EXCEPT !.res = Some(cur_text(st.te))]
        ELSE st

\* TextEntry::new, with an empty start_text.
TextEntryInit ==
    /\ text_entry \in {NewTextEntry(<<>>, u, c) : u \in BOOLEAN, c \in BOOLEAN}
    /\ te_call = [op |-> "new", events |-> <<>>, text_before |-> <<>>, res |-> NoneV,
                  panicked |-> FALSE]

\* TextEntry::update(theme, events)
TextEntryUpdate ==
    \E events \in TextBatches :
        LET st == text_entry_update(text_entry, events)
        IN  /\ ~te_call.panicked
            /\ text_entry' = st.te
            /\ te_call' = [op |-> "update", events |-> events,
                           text_before |-> text_entry.text, res |-> st.res,
                           panicked |-> st.panicked]
            /\ TextEntryOnly

(***************************************************************************)
(* MeshBuilder::extend (gl/mesh.rs).  vertex_data is kept as runs: the     *)
(* builder the vertices were added to and how many they are.  MeshIndex is *)
(* u16: an addition that overflows panics in a build with overflow checks  *)
(* and wraps in a build without.                                           *)
(***************************************************************************)
\* The most indices a builder holds before extend.
MaxIndices == 2

\* The vertex counts of the builders (each at most MeshIndex::max_value(),
\* which MeshBuilder::vert asserts).
VertexCounts == {0, 1, 3, 40000, MeshIndexMax}

\* A builder that `label` names, after n calls of vert and with the given
\* indices.
BuiltMeshBuilder(label, n, indices) ==
    [next_index |-> n, indices |-> indices,
     vertex_data |-> IF n = 0 THEN <<>> ELSE <<[of |-> label, count |-> n]>>]

\* The indices a builder with n vertices may hold.
IndicesBelow(n) == {x \in {0, 2, n - 1} : 0 <= x /\ x < n}

\* The builders extend is called with: every index is below next_index.
MeshBuilders(label) ==
    UNION {{BuiltMeshBuilder(label, n, indices) :
                indices \in SeqsUpTo(IndicesBelow(n), MaxIndices)} : n \in VertexCounts}

\* u16 addition: the sum, and whether it overflowed.
AddU16(a, b) == [sum |-> (a + b) % (MeshIndexMax + 1), overflow |-> a + b > MeshIndexMax]

\* MeshBuilder::extend(other): self afterwards, or a panic.
extend(self, other, overflow_checks) ==
    LET start_index == self.next_index
        num_verts == other.next_index
        next_index == AddU16(start_index, num_verts)
        moved == [i \in DOMAIN other.indices |-> AddU16(other.indices[i], start_index)]
        overflow == next_index.overflow \/ \E i \in DOMAIN moved : moved[i].overflow
    IN  [panicked |-> overflow_checks /\ overflow,
         builder |-> [next_index |-> next_index.sum,
                      vertex_data |-> self.vertex_data \o other.vertex_data,
                      indices |-> self.indices \o [i \in DOMAIN moved |-> moved[i].sum]]]

\* Two builders before a.extend(b), in a build with or without overflow
\* checks.
BuilderPair(a, b, overflow_checks) ==
    [op |-> "new", self |-> a, other |-> b, overflow_checks |-> overflow_checks,
     panicked |-> FALSE, result |-> a]

BuilderInit ==
    mb_call \in {BuilderPair(a, b, overflow_checks) :
                    a \in MeshBuilders("a"), b \in MeshBuilders("b"),
                    overflow_checks \in BOOLEAN}

\* a.extend(b)
MeshBuilderExtend ==
    LET r == extend(mb_call.self, mb_call.other, mb_call.overflow_checks)
    IN  /\ mb_call.op = "new"
        /\ mb_call' = [mb_call EXCEPT !.op = "extend", !.panicked = r.panicked,
                                      !.result = IF r.panicked THEN @ ELSE r.builder]
        /\ BuilderOnly

(***************************************************************************)
(* Col::compute_rects and Row::compute_rects (gui/widgets.rs) on a Col or  *)
(* Row of leaves, for the rect its parent hands it.                        *)
(***************************************************************************)
\* The Cols and Rows laid out, each with leaf children.
LayoutWidgets == 11..18

\* Widths and heights of the rect handed in: below, at and above the min
\* sizes of the Cols and Rows.
LayoutExtents == {4, 7, 8, 10, 15, 16, 20}
LayoutRects ==
    {RectNew(start, VAdd(start, <<w, h>>)) :
        start \in {<<0, 0>>, <<2, 1>>}, w \in LayoutExtents, h \in LayoutExtents}

\* The arguments of widget.compute_rects(rect, theme, &min_sizes,
\* &mut widget_rects) as Gui::draw prepares them, before the call.
LayoutCall(widget, rect) ==
    [op |-> "new", widget |-> widget, rect |-> rect,
     min_sizes |-> compute_widget_min_size(widget, EmptyMap), widget_rects |-> EmptyMap]

LayoutInit == layout_call \in {LayoutCall(widget, rect) : widget \in LayoutWidgets, rect \in LayoutRects}

\* widget.compute_rects(rect, theme, &min_sizes, &mut widget_rects)
ComputeRects ==
    /\ layout_call.op = "new"
    /\ layout_call' = [layout_call EXCEPT
                          !.op = "compute_rects",
                          !.widget_rects = compute_rects(layout_call.widget, layout_call.rect,
                                                         layout_call.min_sizes, EmptyMap)]
    /\ LayoutOnly

(***************************************************************************)
(* The specifications.                                                     *)
(***************************************************************************)
\* The subsystems other than the main loop run under the native build.
\* The inputs the other subsystems' specifications leave at one value: the
\* native build, an App that ignores WindowResized, a TextEntry without
\* continuous updates, two empty builders.
NativeBuild == platform = "native" /\ ~app.resizes
PlainTextEntry == text_entry = NewTextEntry(<<>>, FALSE, FALSE)
EmptyBuilders ==
    mb_call = BuilderPair(BuiltMeshBuilder("a", 0, <<>>), BuiltMeshBuilder("b", 0, <<>>), FALSE)
OneLayout == layout_call = LayoutCall(11, RectNew(<<0, 0>>, <<4, 4>>))

InitAll ==
    /\ GuiInit /\ GlInit /\ ProgInit /\ Draw2dInit /\ FontInit /\ LoopInit
    /\ CreateInit /\ TextEntryInit /\ LayoutInit /\ BuilderInit

Init == PlainTextEntry /\ EmptyBuilders /\ OneLayout /\ InitAll /\ NativeBuild

InitLoop == PlainTextEntry /\ EmptyBuilders /\ OneLayout /\ InitAll

NextGui == GuiDraw \/ GuiHandleEvents \/ GuiUnhandledEvents \/ GuiResultDrop
SpecGui == Init /\ [][NextGui]_vars

NextGl ==
    \/ ProgramBind \/ SurfaceBind \/ SurfaceBindRead \/ TextureBind \/ DrawModeBind
    \/ FramebufferNew \/ BlitTo \/ ScreenSetSize
SpecGl == Init /\ [][NextGl]_vars

NextProg == GlProgramNew \/ GlProgramClone \/ GlProgramDrop \/ MeshNew \/ MeshDrop
SpecProg == Init /\ [][NextProg]_vars

NextDraw2d ==
    \/ Draw2dFillPoly \/ Draw2dDrawLineStrip \/ Draw2dDrawLine \/ Draw2dFillRect
    \/ Draw2dOutlineRect \/ Draw2dRenderQueued
SpecDraw2d == Init /\ [][NextDraw2d]_vars

NextFont ==
    FontDrawString \/ FontDrawChar \/ FontStringWidth \/ FontStringSize \/ FontRenderQueued
SpecFont == Init /\ [][NextFont]_vars

NextLoop == NativeFrame \/ WasmEvent \/ WasmFrame
SpecLoop == InitLoop /\ [][NextLoop]_vars

\* The constructors run under either build.
InitCreate == InitLoop /\ ~app.resizes
NextCreate == CreateProgram \/ CreateFramebuffer \/ CreateContext
SpecCreate == InitCreate /\ [][NextCreate]_vars

NextTextEntry == TextEntryUpdate
InitTextEntry == EmptyBuilders /\ OneLayout /\ InitAll /\ NativeBuild
SpecTextEntry == InitTextEntry /\ [][NextTextEntry]_vars

NextBuilder == MeshBuilderExtend
InitBuilder == PlainTextEntry /\ OneLayout /\ InitAll /\ NativeBuild
SpecBuilder == InitBuilder /\ [][NextBuilder]_vars

NextLayout == ComputeRects
InitLayout == PlainTextEntry /\ EmptyBuilders /\ InitAll /\ NativeBuild
SpecLayout == InitLayout /\ [][NextLayout]_vars

(***************************************************************************)
(* Properties of the GUI event routing (SpecGui).                          *)
(***************************************************************************)
\* The events of a call that widget_handle_event appended to no component.
NotHandled(events, routed) ==
    LET idx == SelectSeq2([k \in 1..Len(routed) |-> k], LAMBDA k : routed[k].to = 0)
    IN  [i \in 1..Len(idx) |-> events[idx[i]]]

\* C1: after a handle_events call that follows a draw, unhandled_events()
\* returns exactly the input events that were appended to no component's
\* list, in input order.
C1_UnhandledAreNotDelivered ==
    (gui_call.op = "unhandled_events" /\ IsSome(last_render)) =>
        gui_call.returned = NotHandled(gui_call.events, gui_call.routed)

\* C2: a keyboard event is appended to a component's list only if that
\* component is the Gui's active component when the event is routed, and to
\* none when no component is active.
C2_KeyboardOnlyToActive ==
    gui_call.op = "handle_events" =>
        \A k \in DOMAIN gui_call.routed :
            LET e == gui_call.routed[k]
            IN  (e.event.type \in KeyboardTypes /\ e.to # 0) => e.gui_active = Some(e.to)

\* C5: a handle_events call whose ordered_components are the IDs of the
\* components of the tree of the most recent draw returns normally.
C5_HandleEventsReturns ==
    (gui_call.op = "handle_events"
        /\ gui_call.ordered_components \in OrdersFor(last_render)) => ~gui_call.panicked

(***************************************************************************)
(* Properties of the binding-state cache (SpecGl).                         *)
(***************************************************************************)
\* The value the cache holds for a slot.
CachedValue(slot) ==
    CASE slot[1] = "program" -> cache.bound_program
      [] slot[1] = "framebuffer" -> cache.bound_framebuffer
      [] slot[1] = "read_framebuffer" -> cache.bound_read_framebuffer
      [] slot[1] = "texture" -> cache.bound_textures[slot[2]]
      [] slot[1] = "draw_mode" -> cache.draw_mode

\* The native calls that put target into a slot: one bind call, or for the
\* draw mode one call for each of the two flags.
NativeBind(slot, target) ==
    CASE slot[1] = "program" -> <<Call("use_program", target)>>
      [] slot[1] = "framebuffer" ->
            <<Call("bind_framebuffer", <<"DRAW_FRAMEBUFFER", surfaces[target].framebuffer>>)>>
      [] slot[1] = "read_framebuffer" ->
            <<Call("bind_framebuffer", <<"READ_FRAMEBUFFER", surfaces[target].framebuffer>>)>>
      [] slot[1] = "texture" -> <<Call("bind_texture", target[2])>>
      [] slot[1] = "draw_mode" ->
            <<Call(IF target.mode = "Draw3D" THEN "enable" ELSE "disable", "CULL_FACE"),
              Call(IF target.mode = "Draw3D" /\ target.depth THEN "enable" ELSE "disable",
                   "DEPTH_TEST")>>

IsBindCall(c) == c.fn \in {"use_program", "bind_framebuffer", "bind_texture", "enable", "disable"}

\* C3: a bind whose target is the value cached for its slot issues no
\* native call; a bind whose target differs issues the native bind exactly
\* once and leaves the target cached.
C3_BindCache ==
    gl_call.op = "bind" =>
        IF gl_call.before = Some(gl_call.target)
        THEN gl_call.calls = <<>> /\ CachedValue(gl_call.slot) = gl_call.before
        ELSE /\ SelectSeq2(gl_call.calls, IsBindCall) = NativeBind(gl_call.slot, gl_call.target)
             /\ CachedValue(gl_call.slot) = Some(gl_call.target)

\* C3 happens: a texture is bound to the unit that already holds it, after
\* a bind on that unit that replaced another texture.
C3_Witness ==
    /\ gl_call.op = "bind"
    /\ gl_call.slot = <<"texture", 1>>
    /\ gl_call.before = Some(gl_call.target)
    /\ gl_call.calls = <<>>
    /\ native.textures[1] = gl_call.target[2]
    /\ native.textures[0] # 0

\* C4: after surface.bind returns, the native draw framebuffer is the
\* surface's framebuffer and the native viewport is the surface's viewport.
C4_BindBindsSurface ==
    (gl_call.op = "bind" /\ gl_call.slot = <<"framebuffer", 0>>) =>
        LET s == surfaces[gl_call.target]
        IN  /\ native.draw_framebuffer = s.framebuffer
            /\ native.viewport = <<s.viewport.start[1], s.viewport.start[2],
                                   s.viewport.end[1] - s.viewport.start[1],
                                   s.viewport.end[2] - s.viewport.start[2]>>

(***************************************************************************)
(* Properties of the program's owners (SpecProg).                          *)
(***************************************************************************)
\* C6: the native program and its two shaders are deleted exactly once,
\* when the last GlProgram or Mesh that refers to the program is dropped,
\* and never while a Mesh built with it is alive.
C6_DeletedAtLastOwnerDrop ==
    \A p \in ProgramIds :
        programs[p].created =>
            LET r == programs[p]
                owners == r.handles + r.meshes
            IN  /\ r.delete_program = (IF owners = 0 THEN 1 ELSE 0)
                /\ r.delete_shader = (IF owners = 0 THEN 2 ELSE 0)
                /\ (r.meshes > 0 => r.delete_program = 0)

\* C6 happens: a Mesh outlived every GlProgram handle, and its drop deleted
\* the program.
C6_Witness ==
    /\ prog_call.op = "Mesh::drop"
    /\ programs[prog_call.program].delete_program = 1
    /\ programs[prog_call.program].delete_shader = 2
    /\ programs[prog_call.program].strong = 0

(***************************************************************************)
(* Properties of Draw2d (SpecDraw2d).                                      *)
(***************************************************************************)
ShapeCalls == {"fill_poly", "draw_line_strip", "draw_line", "fill_rect", "outline_rect"}

\* C7: the shape calls issue no native draw call; a queued shape is
\* submitted by the first render_queued after it was queued and by no
\* other; the triangle builder is empty after every render_queued.
C7_DeferredUntilRenderQueued ==
    /\ d2_call.op \in ShapeCalls => d2_call.draw_calls = 0
    /\ \A shape \in DOMAIN d2_log.queued_at :
           d2_log.submitted[shape] =
               IF d2_log.renders > d2_log.queued_at[shape]
               THEN <<d2_log.queued_at[shape] + 1>> ELSE <<>>
    /\ d2_call.op = "render_queued" =>
           /\ draw2d.triangle_mesh_builder.indices = <<>>
           /\ draw2d.triangle_mesh_builder.next_index = 0

\* C7 happens: the second render_queued has submitted a shape queued after
\* the first, which had submitted another.
C7_Witness ==
    /\ d2_call.op = "render_queued"
    /\ d2_call.draw_calls = 1
    /\ d2_log.renders = 2
    /\ \E a, b \in DOMAIN d2_log.submitted :
           d2_log.submitted[a] = <<1>> /\ d2_log.submitted[b] = <<2>>

(***************************************************************************)
(* Properties of the glyph cache (SpecFont).                               *)
(***************************************************************************)
TextCalls == {"draw_string", "draw_char", "string_width", "string_size"}

\* C8: a character is rasterized and given room in the atlas at most once;
\* a cached glyph's location, size and advance never change; a call whose
\* characters are all cached leaves cur_x, cur_y and the glyph map as they
\* were.
C8_GlyphCachedOnce ==
    /\ [](\A c \in Chars :
              /\ font_log.rasterized[c] <= 1
              /\ Cardinality({i \in DOMAIN font_log.atlas : font_log.atlas[i].char = c}) <= 1)
    /\ [][\A c \in DOMAIN font.glyphs :
              c \in DOMAIN font'.glyphs /\ font'.glyphs[c] = font.glyphs[c]]_vars
    /\ [][(font_call'.op \in TextCalls /\ SeqRange(font_call'.str) \subseteq DOMAIN font.glyphs)
              => /\ font'.cur_x = font.cur_x
                 /\ font'.cur_y = font.cur_y
                 /\ font'.glyphs = font.glyphs]_vars

\* C8 happens: a string whose characters were cached by an earlier call has
\* been drawn again, with two glyphs side by side in the atlas.
C8_Witness ==
    /\ font_call.op = "draw_string"
    /\ font_call.str = <<"a", "b">>
    /\ font_call.cached
    /\ font.render_mesh_builder.next_index = 8
    /\ font_log.rasterized["a"] = 1
    /\ font_log.rasterized["b"] = 1
    /\ font.glyphs["b"].display[1].loc = <<601, 0>>

(***************************************************************************)
(* Properties of the main loop (SpecLoop).                                 *)
(***************************************************************************)
\* The keys with a KeyDown in h that no KeyUp for the key and no FocusLost
\* follows, and the same for the buttons with MouseLeave added.
PressedKeysOf(h) ==
    {h[i].code : i \in {j \in DOMAIN h :
        /\ h[j].type = "KeyDown"
        /\ \A k \in DOMAIN h :
               k > j => /\ ~(h[k].type = "KeyUp" /\ h[k].code = h[j].code)
                        /\ h[k].type # "FocusLost"}}

PressedButtonsOf(h) ==
    {h[i].button : i \in {j \in DOMAIN h :
        /\ h[j].type = "MouseDown"
        /\ \A k \in DOMAIN h :
               k > j => /\ ~(h[k].type = "MouseUp" /\ h[k].button = h[j].button)
                        /\ h[k].type \notin {"MouseLeave", "FocusLost"}}}

\* C9: pressed_keys holds the keys with a KeyDown and no later KeyUp for
\* the key or FocusLost; pressed_mouse_buttons holds the buttons with a
\* MouseDown and no later MouseUp for the button, MouseLeave or FocusLost.
C9_PressedInputs ==
    /\ event_state.pressed_keys = PressedKeysOf(history)
    /\ event_state.pressed_mouse_buttons = PressedButtonsOf(history)

\* C9 happens: a key and a button were pressed, the focus was lost, and a
\* key was pressed after that.
C9_Witness ==
    /\ Len(history) = 3
    /\ history[1].type \in {"KeyDown", "MouseDown"}
    /\ history[2].type = "FocusLost"
    /\ history[3].type = "KeyDown"
    /\ event_state.pressed_keys = {history[3].code}
    /\ event_state.pressed_mouse_buttons = {}

Kept(translated) ==
    Events(SelectSeq2(translated, LAMBDA t : ~(t.event.type = "MouseMove" /\ t.resizing)))

CallsOf(fn) == SelectSeq2(create_call.calls, LAMBDA c : c.fn = fn)

\* C11: GlProgram::new panics when a shader did not compile or the program
\* did not link, and Framebuffer::new panics when the framebuffer's status
\* is not FRAMEBUFFER_COMPLETE; such a call returns no object and no error
\* value, and compiles, links or creates nothing a second time.
C11_NativeFailuresPanic ==
    /\ create_call.op = "GlProgram::new" =>
           LET i == create_call.input
           IN  /\ create_call.outcome =
                      (IF i.vert_ok /\ i.frag_ok /\ i.link_ok THEN "returned" ELSE "panicked")
               /\ create_call.outcome = "panicked" => create_call.value = NoneV
               /\ Len(CallsOf("compile_shader")) <= 2
               /\ Len(CallsOf("link_program")) <= 1
    /\ create_call.op = "Framebuffer::new" =>
           /\ create_call.outcome =
                  (IF create_call.input.status = "FRAMEBUFFER_COMPLETE" THEN "returned"
                   ELSE "panicked")
           /\ create_call.outcome = "panicked" =>
                  /\ create_call.value = NoneV
                  /\ gl_call.target \notin DOMAIN surfaces
           /\ Len(CallsOf("bind_framebuffer")) = 1

\* C11 happens: after a program was created, a second one compiled both of
\* its shaders and failed to link.
C11_Witness ==
    /\ create_call.op = "GlProgram::new"
    /\ create_call.input.vert_ok /\ create_call.input.frag_ok
    /\ ~create_call.input.link_ok
    /\ create_call.outcome = "panicked"
    /\ programs[1].created
    /\ ~programs[2].created

\* The window, the canvas or the graphics context could not be created.
CreationFailed(env) ==
    IF platform = "native"
    THEN ~(env.glfw_init /\ env.monitor /\ env.video_mode /\ env.create_window)
    ELSE ~(env.window /\ env.document /\ env.element /\ env.is_canvas
               /\ env.get_context = "Some" /\ env.is_webgl2)

\* C12: when the window, the canvas or the graphics context cannot be
\* created, GlContext::new returns Err.
C12_CreationFailureIsErr ==
    (create_call.op = "GlContext::new" /\ CreationFailed(create_call.input)) =>
        create_call.outcome = "err"

(***************************************************************************)
(* Properties of TextEntry (SpecTextEntry).                                *)
(***************************************************************************)
HasEnter(events) ==
    \E i \in DOMAIN events : events[i].type = "KeyDown" /\ events[i].code = "Enter"

\* C13: with continuous_updates, update returns Some(text) exactly when the
\* events of the call changed the text, and a call whose events are all
\* Enter key-downs leaves the text as it was; without continuous_updates,
\* update returns Some(text) only for a batch with an Enter key-down, and
\* the text is empty after such a call.
C13_ContinuousUpdates ==
    te_call.op = "update" =>
        IF text_entry.continuous_updates
        THEN /\ IsSome(te_call.res) <=> text_entry.text # te_call.text_before
             /\ (\A i \in DOMAIN te_call.events : HasEnter(<<te_call.events[i]>>))
                    => text_entry.text = te_call.text_before
        ELSE /\ IsSome(te_call.res) => HasEnter(te_call.events)
             /\ IsSome(te_call.res) => text_entry.text = <<>>

(***************************************************************************)
(* Properties of MeshBuilder::extend (SpecBuilder).                        *)
(***************************************************************************)
\* The number of vertices in vertex_data.
RECURSIVE VertexCount(_)
VertexCount(vertex_data) ==
    IF vertex_data = <<>> THEN 0
    ELSE vertex_data[1].count + VertexCount(Tail(vertex_data))

\* C14: after a.extend(b), a holds its earlier vertices followed by b's,
\* its earlier indices followed by b's indices each increased by a's earlier
\* next_index, and a next_index that is the sum of the two vertex counts.
C14_ExtendAppends ==
    mb_call.op = "extend" =>
        LET a == mb_call.self
            b == mb_call.other
            r == mb_call.result
        IN  /\ ~mb_call.panicked
            /\ r.vertex_data = a.vertex_data \o b.vertex_data
            /\ r.indices = a.indices \o [i \in DOMAIN b.indices |-> b.indices[i] + a.next_index]
            /\ r.next_index = a.next_index + b.next_index
            /\ r.next_index = VertexCount(r.vertex_data)

\* The widgets below w in its tree.
Descendants(w) == SeqRange(PreOrder(w)) \ {w}

\* C15: during Gui::draw, whenever Widget::min_size is called on a widget,
\* min_sizes already holds the min size of every widget below it; and
\* every compute_rects call comes after all min_size calls, when min_sizes
\* holds every widget of the tree.
C15_MinSizesBottomUp ==
    (gui_call.op = "draw" /\ IsSome(last_render)) =>
        LET steps == gui_call.steps
            tree == SeqRange(PreOrder(Unwrap(last_render).widget))
        IN  /\ \A w \in tree : \E i \in DOMAIN steps :
                    steps[i].op = "min_size" /\ steps[i].widget = w
            /\ \A i \in DOMAIN steps :
                    /\ steps[i].op = "min_size" =>
                            Descendants(steps[i].widget) \subseteq steps[i].min_sizes
                    /\ steps[i].op = "compute_rects" =>
                            /\ tree \subseteq steps[i].min_sizes
                            /\ \A j \in DOMAIN steps : j > i => steps[j].op = "compute_rects"

\* C15 witness: a draw of the tree Inset[Overlap[Label, Button]] asked the
\* Inset for its min size when the three widgets below it were recorded.
C15_Witness ==
    /\ gui_call.op = "draw"
    /\ \E i \in DOMAIN gui_call.steps :
            /\ gui_call.steps[i].op = "min_size"
            /\ gui_call.steps[i].widget = 10
            /\ gui_call.steps[i].min_sizes = {2, 4, 9}
    /\ \E i \in DOMAIN gui_call.steps : gui_call.steps[i].op = "compute_rects"

\* Gui.active_component after the k-th event of the last handle_events call.
ActiveAfter(k) ==
    IF k < Len(gui_call.routed) THEN gui_call.routed[k + 1].active_before ELSE active_component

\* i mod n, for n >= 1.
Mod(i, n) == ((i % n) + n) % n

\* The stored pair names a position of ordered_components and the id there.
Consistent(active, ordered_components) ==
    /\ IsSome(active)
    /\ Unwrap(active)[1] \in 0..(Len(ordered_components) - 1)
    /\ ordered_components[Unwrap(active)[1] + 1] = Unwrap(active)[2]

\* n times the event.
Repeat(event, n) == [i \in 1..n |-> event]

Occurrences(s, x) == Cardinality({i \in DOMAIN s : s[i] = x})

\* C16: in Gui::handle_events, a Tab key-down while the component with
\* index i is active moves the focus to ordered_components[(i+1) mod n],
\* with shift to ordered_components[(i-1) mod n], and is left out of the
\* unhandled events; while no component is active it changes no focus
\* state; n Tab presses in a row return the focus to where it was.
C16_TabCycles ==
    gui_call.op = "handle_events" =>
        LET oc == gui_call.ordered_components
            n == Len(oc)
            routed == gui_call.routed
            tabs == {KeyDown("Tab", FALSE), KeyDown("Tab", TRUE)}
        IN  /\ \A k \in DOMAIN routed :
                    LET e == routed[k]
                        i == Unwrap(e.active_before)[1]
                        to == Mod(IF e.event.shift THEN i - 1 ELSE i + 1, n)
                    IN  e.event \in tabs =>
                            IF IsSome(e.active_before)
                            THEN n >= 1 => /\ ~(gui_call.panicked /\ k = Len(routed))
                                           /\ ActiveAfter(k) = Some(<<to, oc[to + 1]>>)
                            ELSE ActiveAfter(k) = NoneV
            /\ ~gui_call.panicked =>
                    \A t \in tabs :
                        Occurrences(unhandled_events, t)
                            = Occurrences(gui_call.events, t)
                              - Cardinality({k \in DOMAIN routed :
                                                routed[k].event = t /\ IsSome(routed[k].active_before)})
            /\ (~gui_call.panicked /\ Consistent(active_component, oc)) =>
                    \A t \in tabs :
                        handle_events(active_component, last_render, Repeat(t, n), oc).active_component
                            = active_component

\* C16 witness: a call with two components in the tab order and two Tab
\* key-downs in a row, which took the focus away from the active component
\* and back to it.
C16_Witness ==
    /\ gui_call.op = "handle_events"
    /\ ~gui_call.panicked
    /\ Len(gui_call.ordered_components) = 2
    /\ Len(gui_call.routed) = 2
    /\ gui_call.routed[1].event = KeyDown("Tab", TRUE)
    /\ gui_call.routed[2].event = KeyDown("Tab", TRUE)
    /\ Consistent(gui_call.routed[1].active_before, gui_call.ordered_components)
    /\ gui_call.routed[2].active_before # gui_call.routed[1].active_before
    /\ active_component = gui_call.routed[1].active_before
    /\ unhandled_events = <<>>

\* The components of the last render whose rect holds pos, in pre-order.
ComponentsAt(pos) ==
    LET render == Unwrap(last_render)
        Holds(w) == is_component(w) /\ ContainsPoint(render.widget_rects[w], pos)
    IN  SelectSeq2(PreOrder(render.widget), Holds)

\* C17: a MouseDown inside a component's rect is delivered to the first such
\* component in pre-order, with the position made relative to the rect's
\* start; if the button is Left that component is the active component
\* afterwards; a MouseDown with another button, a MouseUp and a MouseMove
\* leave the active component as it was.
C17_FocusFollowsLeftClicks ==
    (gui_call.op = "handle_events" /\ ~gui_call.panicked /\ IsSome(last_render)) =>
        \A k \in DOMAIN gui_call.routed :
            LET e == gui_call.routed[k]
                at == ComponentsAt(e.event.pos)
                rect == Unwrap(last_render).widget_rects[at[1]]
            IN  /\ (e.event.type = "MouseDown" /\ at # <<>>) =>
                        /\ e.to = at[1]
                        /\ \E i \in DOMAIN component_events[at[1]] :
                                component_events[at[1]][i]
                                    = [e.event EXCEPT !.pos = VSub(e.event.pos, rect.start)]
                        /\ e.event.button = "Left" => IdOf(ActiveAfter(k)) = Some(at[1])
                /\ (\/ e.event.type \in {"MouseUp", "MouseMove"}
                    \/ e.event.type = "MouseDown" /\ e.event.button # "Left") =>
                        ActiveAfter(k) = e.active_before

\* The components of the last render that accept the routed event e, in
\* pre-order: those for which widget_handle_event computes an event2.
Accepting(e) ==
    LET render == Unwrap(last_render)
        Accepts(w) == /\ is_component(w)
                      /\ IsSome(ComponentEvent(render.widget_rects[w], e.local_active = Some(w),
                                               e.event))
    IN  SelectSeq2(PreOrder(render.widget), Accepts)

\* The events of the last handle_events call that went to component c, as c
\* receives them, in the order of the input events.
RECURSIVE DeliveredTo(_, _)
DeliveredTo(c, k) ==
    IF k > Len(gui_call.routed) THEN <<>>
    ELSE LET e == gui_call.routed[k]
             rect == Unwrap(last_render).widget_rects[c]
         IN  (IF e.to = c
              THEN <<Unwrap(ComponentEvent(rect, e.local_active = Some(c), e.event))>>
              ELSE <<>>) \o DeliveredTo(c, k + 1)

RECURSIVE TotalLen(_, _)
TotalLen(f, S) ==
    IF S = {} THEN 0 ELSE LET c == CHOOSE x \in S : TRUE IN Len(f[c]) + TotalLen(f, S \ {c})

\* C18: Gui::handle_events appends each event to the event list of at most
\* one component, the first in pre-order that accepts it, and not to those
\* after it; the events in a component's list are in the order of the
\* input events.
C18_OneReceiverInOrder ==
    (gui_call.op = "handle_events" /\ ~gui_call.panicked /\ IsSome(last_render)) =>
        /\ Len(gui_call.routed) = Len(gui_call.events)
        /\ \A k \in DOMAIN gui_call.routed :
                LET e == gui_call.routed[k]
                IN  /\ e.event = gui_call.events[k]
                    /\ e.to = (IF Accepting(e) = <<>> THEN 0 ELSE Accepting(e)[1])
                    /\ e.handled = (e.to # 0)
        /\ TotalLen(component_events, AllComponents)
                = Cardinality({k \in DOMAIN gui_call.routed : gui_call.routed[k].to # 0})
        /\ \A c \in AllComponents : component_events[c] = DeliveredTo(c, 1)

\* C18 witness: a tree with several components, all of which accept a
\* FocusGained event; the first one in pre-order got it, and then a second,
\* different event of the same call.
C18_Witness ==
    /\ gui_call.op = "handle_events"
    /\ ~gui_call.panicked
    /\ IsSome(last_render)
    /\ Len(gui_call.routed) = 2
    /\ gui_call.routed[1].event = Plain("FocusGained")
    /\ Len(Accepting(gui_call.routed[1])) >= 2
    /\ gui_call.routed[2].event # gui_call.routed[1].event
    /\ gui_call.routed[2].to = gui_call.routed[1].to
    /\ Len(component_events[gui_call.routed[1].to]) = 2
    /\ component_events[gui_call.routed[1].to][1] = Plain("FocusGained")

\* C19: a Gui::handle_events call that is passed the list the stored focus
\* pair is consistent with (or that finds no pair stored) leaves no pair or
\* a pair (i, id) with 0 <= i < ordered_components.len() and
\* ordered_components[i] = id; and no step of the Gui takes the stored pair
\* from Some back to None.  By induction over the calls, the pair stays
\* consistent over any sequence of calls with the same list.
C19_FocusPairConsistent ==
    [][/\ IsSome(active_component) => IsSome(active_component')
       /\ (gui_call'.op = "handle_events" /\ gui_call.op # "handle_events"
              /\ ~gui_call'.panicked) =>
            LET oc == gui_call'.ordered_components
            IN  (active_component = NoneV \/ Consistent(active_component, oc)) =>
                    (active_component' = NoneV \/ Consistent(active_component', oc))]_vars

\* C19 witness: a call that started with a pair consistent with its list and
\* ended with another pair consistent with it.
C19_Witness ==
    /\ gui_call.op = "handle_events"
    /\ ~gui_call.panicked
    /\ gui_call.routed # <<>>
    /\ Consistent(gui_call.routed[1].active_before, gui_call.ordered_components)
    /\ Consistent(active_component, gui_call.ordered_components)
    /\ active_component # gui_call.routed[1].active_before

\* The extent of a size along the axis a Col (2: y) or a Row (1: x) stacks
\* its children on, and the other axis.
Axis(w) == IF Widgets[w].kind = "Col" THEN 2 ELSE 1
Across(w) == 3 - Axis(w)

\* What C20 says of the last compute_rects on a Col or Row: the children's
\* rects start at rect.start and each starts where the one before ends;
\* each spans the given rect across the axis; its extent along the axis is
\* its min extent plus trunc(extra * flex_k / total_flex); with all flex
\* zero each child has its min extent and the widget's own rect has the
\* widget's min extent; with extra >= 0 the extents sum to at most the
\* extent given.
FlexDistribution ==
    LET w == layout_call.widget
        ch == Widgets[w].children
        flex == Widgets[w].flex
        rect == layout_call.rect
        rects == layout_call.widget_rects
        min_sizes == layout_call.min_sizes
        ax == Axis(w)
        ac == Across(w)
        total_flex == SumSeq(flex)
        all_zero == \A k \in DOMAIN flex : flex[k] = 0
        extra == RectSize(rect)[ax] - min_sizes[w][ax]
        Extent(k) == RectSize(rects[ch[k]])[ax]
    IN  /\ rects[ch[1]].start = rect.start
        /\ \A k \in DOMAIN ch :
                /\ k > 1 => /\ rects[ch[k]].start[ax] = rects[ch[k - 1]].end[ax]
                            /\ rects[ch[k]].start[ac] = rect.start[ac]
                /\ RectSize(rects[ch[k]])[ac] = RectSize(rect)[ac]
                /\ Extent(k) = min_sizes[ch[k]][ax]
                                + (IF all_zero THEN 0 ELSE TruncDiv(extra * flex[k], total_flex))
        /\ all_zero => /\ \A k \in DOMAIN ch : Extent(k) = min_sizes[ch[k]][ax]
                       /\ RectSize(rects[w])[ax] = min_sizes[w][ax]
        /\ extra >= 0 => SumSeq([k \in DOMAIN ch |-> Extent(k)]) <= RectSize(rect)[ax]

Within(inner, outer) ==
    /\ outer.start[1] <= inner.start[1] /\ outer.start[2] <= inner.start[2]
    /\ inner.end[1] <= outer.end[1] /\ inner.end[2] <= outer.end[2]

\* The min size Gui::draw computes for the root of the last render.
RootMinSize == compute_widget_min_size(Unwrap(last_render).widget, EmptyMap)[Unwrap(last_render).widget]

\* C21: after Gui::draw of a tree whose root min size fits within the
\* surface, the rect recorded for every widget lies within the rect
\* recorded for its parent, the root's rect lies within the surface rect,
\* and rendered_size does not exceed the surface size.
C21_ChildrenInsideParents ==
    (/\ IsSome(last_render)
     /\ RootMinSize[1] <= SurfaceSize[1] /\ RootMinSize[2] <= SurfaceSize[2]) =>
        LET render == Unwrap(last_render)
            rects == render.widget_rects
        IN  /\ \A w \in SeqRange(PreOrder(render.widget)) :
                    \A k \in DOMAIN children(w) : Within(rects[children(w)[k]], rects[w])
            /\ Within(rects[render.widget], RectNew(<<0, 0>>, SurfaceSize))
            /\ rendered_size(render)[1] <= SurfaceSize[1]
            /\ rendered_size(render)[2] <= SurfaceSize[2]

(***************************************************************************)
(* Properties of the glyph atlas (SpecFont).                               *)
(***************************************************************************)
\* The rows opened by the first k - 1 glyphs drawn into the atlas, by their
\* y, and the x after the last glyph of a row and its one-pixel gap.
RowsBefore(k) == {font_log.atlas[j].loc[2] : j \in 1..(k - 1)}

MaxOf(S) == CHOOSE x \in S : \A y \in S : y <= x
MinOf(S) == CHOOSE x \in S : \A y \in S : x <= y

RowEnd(k, y) ==
    MaxOf({font_log.atlas[j].loc[1] + font_log.atlas[j].size[1] + 1 :
              j \in {i \in 1..(k - 1) : font_log.atlas[i].loc[2] = y}})

\* The rows that have room for the k-th glyph.
RowsWithRoom(k) ==
    {y \in RowsBefore(k) : RowEnd(k, y) + font_log.atlas[k].size[1] < AtlasSize[1]}

CursorBefore(k) ==
    IF k = 1 THEN <<0, 0>>
    ELSE <<font_log.atlas[k - 1].loc[1] + font_log.atlas[k - 1].size[1] + 1,
           font_log.atlas[k - 1].loc[2]>>

AtlasRect(display) == RectNew(display.loc, VAdd(display.loc, display.size))

\* Two rectangles that share no pixel.
Disjoint(r1, r2) ==
    \/ r1.end[1] <= r2.start[1] \/ r2.end[1] <= r1.start[1]
    \/ r1.end[2] <= r2.start[2] \/ r2.end[2] <= r1.start[2]

\* C23: the atlas rectangles of any two distinct cached non-whitespace
\* glyphs are disjoint; a cached whitespace glyph has no place in the atlas
\* and cur_x, cur_y stay where the last glyph drawn into the atlas left
\* them.
C23_GlyphsNeverOverlap ==
    LET shown == {c \in DOMAIN font.glyphs : IsSome(font.glyphs[c].display)}
        n == Len(font_log.atlas)
    IN  /\ \A c1 \in shown, c2 \in shown :
                c1 # c2 => Disjoint(AtlasRect(Unwrap(font.glyphs[c1].display)),
                                    AtlasRect(Unwrap(font.glyphs[c2].display)))
        /\ \A c \in DOMAIN font.glyphs :
                is_whitespace(c) =>
                    /\ font.glyphs[c].display = NoneV
                    /\ \A i \in DOMAIN font_log.atlas : font_log.atlas[i].char # c
        /\ <<font.cur_x, font.cur_y>> = CursorBefore(n + 1)

====
